---------------------------- MODULE Spec2Model ----------------------------
(***************************************************************************)
(* A model of the openclaw agent-did plugin: the KeystoreManager singleton,*)
(* the error normaliser and the command handlers that sit on top of the    *)
(* agent-did library.                                                      *)
(*                                                                         *)
(* Conventions                                                             *)
(*  - A path is a tuple of segments; an absolute path starts with "/".     *)
(*  - An error message is the tuple of its words (punctuation is a word of *)
(*    its own); String.includes is the contiguous-subsequence test.        *)
(*  - A DID is <<"did", "key", k>> where k names the public key.           *)
(*  - last is what the most recent call or command invocation did: its     *)
(*    arguments, the calls it made in order, its error and its exit code.  *)
(***************************************************************************)
EXTENDS Integers, Sequences, FiniteSets, TLC

VARIABLES
    envPassphrase,      \* process.env.AGENT_DID_PASSPHRASE
    envHome,            \* process.env.AGENT_DID_HOME
    instance,           \* KeystoreManager.instance
    currentPath,        \* KeystoreManager.currentPath
    currentEncryption,  \* KeystoreManager.currentEncryption
    disk,               \* what the keystores hold, by resolved path
    keyCount,           \* how many key pairs generateKeyPair has produced
    files,              \* the credential files, by name
    now,                \* the wall clock, in seconds
    atCreation,         \* for each stored agent: what its owner was when it was stored
    response,           \* the signed challenge the caller holds; whether it was accepted
    inFlight,           \* a create agent that has checked its owner and not yet stored
    host,               \* the host's CLI program and what the plugin registered with it
    last                \* the most recent call or command and what it did

vars == <<envPassphrase, envHome, instance, currentPath, currentEncryption,
          disk, keyCount, files, now, atCreation, response, inFlight, host, last>>

ksVars == <<instance, currentPath, currentEncryption>>
envVars == <<envPassphrase, envHome>>

\* An optional value (null or undefined in the source) is the empty set or the
\* set of the one value; a passphrase, being a string, has its own two marks.
NULL == {}
Some(x) == {x}
Get(o) == CHOOSE x \in o : TRUE

Undefined == "undefined"
NoPassphrase == "null"

-----------------------------------------------------------------------------
(* Bounds of the model *)

MaxKeys == 2
MaxTime == 1

-----------------------------------------------------------------------------
(* Paths: path.resolve, os.homedir, process.cwd *)

Cwd == <<"/", "w">>
HomeDir == <<"/", "home">>
EmptyString == <<>>

IsAbsolute(p) == Len(p) > 0 /\ p[1] = "/"

\* path.resolve(p): an absolute path stays, a relative one is taken from the cwd
PathResolve(p) == IF IsAbsolute(p) THEN p ELSE Cwd \o p

\* path.join(os.homedir(), '.agent-did')
DefaultStorePath == HomeDir \o <<".agent-did">>

\* JavaScript truthiness of an optional path string
Truthy(s) == s # NULL /\ Get(s) # EmptyString

-----------------------------------------------------------------------------
(* Error messages and normalizeError *)

\* String.prototype.includes on word tuples
Includes(msg, pat) ==
    \E i \in 1..(Len(msg) - Len(pat) + 1) : SubSeq(msg, i, i + Len(pat) - 1) = pat

MsgPassphraseRequired ==
    <<"Passphrase", "required", "but", "not", "available", ".",
      "Set", "AGENT_DID_PASSPHRASE", "environment", "variable", "or", "use",
      "--no-encryption", "flag", ".">>

MsgPassphraseNormalized ==
    <<"Passphrase", "required", ".",
      "Set", "AGENT_DID_PASSPHRASE", "environment", "variable", "or", "use",
      "--no-encryption", "flag", ".">>

MsgInvalidPassphraseNormalized ==
    <<"Invalid", "passphrase", ".", "Check", "your", "AGENT_DID_PASSPHRASE",
      "environment", "variable", ".">>

MsgUnexpected == <<"An", "unexpected", "error", "occurred">>

\* new Error(message)
PlainError(message) == [kind |-> "Error", message |-> message, code |-> Undefined]

normalizeError(error) ==
    IF error.kind = "AgentDidError" THEN error
    ELSE IF error.kind = "Error" THEN
        LET message == error.message IN
        IF Includes(message, <<"Passphrase", "required">>)
            THEN [kind |-> "AgentDidError", message |-> MsgPassphraseNormalized,
                  code |-> "MISSING_PASSPHRASE"]
        ELSE IF Includes(message, <<"Invalid", "passphrase">>)
            THEN [kind |-> "AgentDidError", message |-> MsgInvalidPassphraseNormalized,
                  code |-> "INVALID_PASSPHRASE"]
        ELSE IF Includes(message, <<"not", "found">>)
                \/ Includes(message, <<"does", "not", "exist">>)
            THEN [kind |-> "AgentDidError", message |-> message, code |-> "NOT_FOUND"]
        ELSE IF Includes(message, <<"already", "exists">>)
            THEN [kind |-> "AgentDidError", message |-> message, code |-> "ALREADY_EXISTS"]
        ELSE IF Includes(message, <<"permission", "denied">>)
            THEN [kind |-> "AgentDidError", message |-> message,
                  code |-> "PERMISSION_DENIED"]
        ELSE [kind |-> "AgentDidError", message |-> message, code |-> Undefined]
    ELSE [kind |-> "AgentDidError", message |-> MsgUnexpected, code |-> "UNKNOWN"]

-----------------------------------------------------------------------------
(* KeystoreManager *)

\* The name of a new object: the smallest one that no live reference holds
\* (the cached instance and the object the previous call handed out).
ObjIds == 1..3
FreshId ==
    LET used == {o.id : o \in instance \cup last.ks}
    IN  CHOOSE i \in ObjIds : i \notin used /\ \A j \in ObjIds : j \notin used => i <= j

\* new Keystore(path, passphrase, skipValidation); noEncryption is not a field of
\* the object: it remembers the flag of the call that constructed it
NewKeystore(path, passphrase, skipValidation, noEncryption) ==
    [id |-> FreshId, path |-> path, passphrase |-> passphrase,
     skipValidation |-> skipValidation, noEncryption |-> noEncryption]

getStorePath(customPath) ==
    IF Truthy(customPath) THEN PathResolve(Get(customPath))
    ELSE IF Truthy(envHome) THEN Get(envHome)
    ELSE DefaultStorePath

\* getPassphrase with the environment fallback dropped to "no passphrase"
getPassphraseFallsBack(noEncryption) ==
    IF noEncryption THEN [ok |-> TRUE, value |-> NoPassphrase]
    ELSE IF envPassphrase # Undefined /\ envPassphrase # ""
        THEN [ok |-> TRUE, value |-> envPassphrase]
    ELSE [ok |-> TRUE, value |-> NoPassphrase]

getPassphrase(noEncryption) ==
    IF noEncryption THEN [ok |-> TRUE, value |-> NoPassphrase]
    ELSE IF envPassphrase # Undefined
        THEN IF envPassphrase = "" THEN [ok |-> TRUE, value |-> NoPassphrase]
             ELSE [ok |-> TRUE, value |-> envPassphrase]
    ELSE [ok |-> FALSE, error |-> PlainError(MsgPassphraseRequired)]

\* The cache test keyed by the path alone
CacheHitPathOnly(resolvedPath, noEncryption) ==
    /\ instance # NULL
    /\ currentPath = Some(resolvedPath)

\* A cache test that also requires the passphrase of the cached instance to
\* be the one the environment gives now
CacheHitSamePassphrase(resolvedPath, noEncryption) ==
    /\ instance # NULL
    /\ currentPath = Some(resolvedPath)
    /\ currentEncryption = Some(~noEncryption)
    /\ noEncryption \/ Get(instance).passphrase = envPassphrase

\* The cache test of getKeystore
CacheHit(resolvedPath, noEncryption) ==
    /\ instance # NULL
    /\ currentPath = Some(resolvedPath)
    /\ currentEncryption = Some(~noEncryption)

\* The mode stored as the flag itself
CachedModeAsGiven(noEncryption) == Some(noEncryption)

\* this.currentEncryption = !noEncryption
CachedMode(noEncryption) == Some(~noEncryption)

\* A failed miss that has dropped the cached instance on its way
MissFailedClears(error) ==
    [ok |-> FALSE, error |-> error, ks |-> NULL, hit |-> FALSE,
     calls |-> <<"getPassphrase">>,
     instance |-> NULL, currentPath |-> NULL, currentEncryption |-> NULL]

\* getPassphrase threw at line 33: the assignments of lines 40-42 are not reached
MissFailed(error) ==
    [ok |-> FALSE, error |-> error, ks |-> NULL, hit |-> FALSE,
     calls |-> <<"getPassphrase">>,
     instance |-> instance, currentPath |-> currentPath,
     currentEncryption |-> currentEncryption]

\* The warning both accessors print before constructing a plaintext keystore
WarnCalls(noEncryption, passphrase) ==
    IF noEncryption /\ passphrase = NoPassphrase THEN <<"warn">> ELSE <<>>

\* getKeystore(customPath, noEncryption): what it returns or throws, the calls
\* it makes, and the three static fields afterwards
getKeystore(customPath, noEncryption) ==
    LET resolvedPath == getStorePath(customPath) IN
    IF CacheHit(resolvedPath, noEncryption)
    THEN [ok |-> TRUE, ks |-> instance, hit |-> TRUE, calls |-> <<>>,
          instance |-> instance, currentPath |-> currentPath,
          currentEncryption |-> currentEncryption]
    ELSE
        LET p == getPassphrase(noEncryption) IN
        IF ~p.ok THEN MissFailed(p.error)
        ELSE
            LET ks == NewKeystore(resolvedPath, p.value, TRUE, noEncryption) IN
            [ok |-> TRUE, ks |-> Some(ks), hit |-> FALSE,
             calls |-> <<"getPassphrase">> \o WarnCalls(noEncryption, p.value)
                       \o <<"new Keystore">>,
             instance |-> Some(ks), currentPath |-> Some(resolvedPath),
             currentEncryption |-> CachedMode(noEncryption)]

\* An accessor for the create commands that goes through the cache
getNewKeystoreCached(customPath, noEncryption) == getKeystore(customPath, noEncryption)

\* getNewKeystore(customPath, noEncryption): never touches the static fields
getNewKeystore(customPath, noEncryption) ==
    LET resolvedPath == getStorePath(customPath)
        p == getPassphrase(noEncryption)
    IN
    IF ~p.ok
    THEN [ok |-> FALSE, error |-> p.error, ks |-> NULL, hit |-> FALSE,
          calls |-> <<"getPassphrase">>,
          instance |-> instance, currentPath |-> currentPath,
          currentEncryption |-> currentEncryption]
    ELSE
        [ok |-> TRUE, ks |-> Some(NewKeystore(resolvedPath, p.value, FALSE, noEncryption)), hit |-> FALSE,
         calls |-> <<"getPassphrase">> \o WarnCalls(noEncryption, p.value)
                   \o <<"new Keystore">>,
         instance |-> instance, currentPath |-> currentPath,
         currentEncryption |-> currentEncryption]

-----------------------------------------------------------------------------
(* The record of a call *)

NoArgs == [store |-> NULL, noEncryption |-> FALSE]

\* The stores, the key counter, the files and the clock as a call found them
Before == [disk |-> disk, keyCount |-> keyCount, files |-> files, now |-> now,
           response |-> response]

\* The host before it has loaded the plugin: a program without commands
Unloaded == [program |-> <<>>, declared |-> <<>>, pending |-> FALSE, ran |-> FALSE]

Idle == [cmd |-> "none", args |-> NoArgs, calls |-> <<>>, ks |-> NULL, hit |-> FALSE,
         error |-> NULL, exit |-> 0, out |-> NULL, before |-> Before]

\* What a direct call of one of the two accessors leaves behind
AccessorRecord(cmd, customPath, noEncryption, r) ==
    [cmd |-> cmd,
     args |-> [store |-> customPath, noEncryption |-> noEncryption],
     calls |-> r.calls, ks |-> r.ks, hit |-> r.hit,
     error |-> IF r.ok THEN NULL ELSE Some(normalizeError(r.error)),
     exit |-> IF r.ok THEN 0 ELSE 1,
     out |-> NULL, before |-> Before]

-----------------------------------------------------------------------------
(* Inputs *)

FileArgs == {<<"c.jwt">>}
FilePaths == {PathResolve(f) : f \in FileArgs}
CustomPaths == {NULL, Some(EmptyString), Some(<<"s1">>), Some(<<"/", "w", "s1">>),
                Some(<<"/", "s2">>)}
PassphraseValues == {Undefined, "", "pw1", "pw2"}
HomeValues == {NULL, Some(<<"/", "s2">>)}

-----------------------------------------------------------------------------
(* The KeystoreManager called directly *)

CallGetKeystore(customPath, noEncryption) ==
    LET r == getKeystore(customPath, noEncryption) IN
    /\ instance' = r.instance
    /\ currentPath' = r.currentPath
    /\ currentEncryption' = r.currentEncryption
    /\ last' = AccessorRecord("getKeystore", customPath, noEncryption, r)
    /\ UNCHANGED <<envVars, disk, keyCount, files, now, atCreation, response, inFlight, host>>

CallGetNewKeystore(customPath, noEncryption) ==
    LET r == getNewKeystore(customPath, noEncryption) IN
    /\ instance' = r.instance
    /\ currentPath' = r.currentPath
    /\ currentEncryption' = r.currentEncryption
    /\ last' = AccessorRecord("getNewKeystore", customPath, noEncryption, r)
    /\ UNCHANGED <<envVars, disk, keyCount, files, now, atCreation, response, inFlight, host>>

clearCache ==
    /\ instance' = NULL
    /\ currentPath' = NULL
    /\ currentEncryption' = NULL
    /\ last' = [Idle EXCEPT !.cmd = "clearCache"]
    /\ UNCHANGED <<envVars, disk, keyCount, files, now, atCreation, response, inFlight, host>>

\* The environment of the process changes between two calls
SetPassphrase(v) ==
    /\ v # envPassphrase
    /\ envPassphrase' = v
    /\ UNCHANGED <<envHome, ksVars, disk, keyCount, files, now, atCreation, response, inFlight, host, last>>

SetHome(v) ==
    /\ v # envHome
    /\ envHome' = v
    /\ UNCHANGED <<envPassphrase, ksVars, disk, keyCount, files, now, atCreation, response, inFlight, host, last>>

-----------------------------------------------------------------------------
(* Initial state: a fresh process, empty keystores, no files *)

\* Every path getStorePath can yield on the inputs below
StorePaths == {DefaultStorePath, <<"/", "w", "s1">>, <<"/", "s2">>}

EmptyStore == [identities |-> <<>>, keys |-> {}, credentials |-> {}]

Init ==
    /\ envPassphrase \in PassphraseValues
    /\ envHome \in HomeValues
    /\ instance = NULL
    /\ currentPath = NULL
    /\ currentEncryption = NULL
    /\ disk = [p \in StorePaths |-> EmptyStore]
    /\ keyCount = 0
    /\ files = [f \in FilePaths |-> NULL]
    /\ now = 0
    /\ atCreation = {}
    /\ response = NULL
    /\ inFlight = NULL
    /\ host = Unloaded
    /\ last = Idle

NextKs ==
    \/ \E c \in CustomPaths, n \in BOOLEAN : CallGetKeystore(c, n)
    \/ \E c \in CustomPaths, n \in BOOLEAN : CallGetNewKeystore(c, n)
    \/ clearCache
    \/ \E v \in PassphraseValues : SetPassphrase(v)
    \/ \E v \in HomeValues : SetHome(v)

SpecKs == Init /\ [][NextKs]_vars

-----------------------------------------------------------------------------
(* The agent-did library, as the handlers use it: key pairs, DIDs and the      *)
(* Keystore's identity operations on the store at the keystore's path         *)

\* publicKeyToDidKey(publicKey): the DID carries the public key
publicKeyToDidKey(k) == <<"did", "key", k>>

\* The public key a did:key names
PublicKeyOf(did) == did[3]

\* generateKeyPair(): a key pair no earlier call has produced
generateKeyPair == keyCount + 1

\* keyPair.privateKey: the secret half of a key pair
PrivateKey(keyPair) == <<"private", keyPair>>

\* keystore.getIdentity(did): the stored record, if any
getIdentity(ks, did) ==
    LET ids == disk[ks.path].identities IN
    {ids[i] : i \in {j \in 1..Len(ids) : ids[j].did = did}}

\* keystore.listIdentities(): the records in insertion order
listIdentities(ks) == disk[ks.path].identities

\* keystore.getKeyPair(did): the key pair, if its key material is stored
getKeyPair(ks, did) ==
    IF did \in disk[ks.path].keys THEN Some(PublicKeyOf(did)) ELSE NULL

\* keystore.storeIdentity(metadata, keyPair): the store afterwards
storeIdentity(ks, metadata) ==
    [disk EXCEPT ![ks.path] =
        [@ EXCEPT !.identities = Append(@, metadata),
                  !.keys = @ \cup {metadata.did}]]

RECURSIVE WithoutDid(_, _)
WithoutDid(ids, did) ==
    IF ids = <<>> THEN <<>>
    ELSE IF Head(ids).did = did THEN WithoutDid(Tail(ids), did)
    ELSE <<Head(ids)>> \o WithoutDid(Tail(ids), did)

\* deleteIdentity that also removes the agents of the deleted owner
RECURSIVE WithoutDidAndItsAgents(_, _)
WithoutDidAndItsAgents(ids, did) ==
    IF ids = <<>> THEN <<>>
    ELSE IF Head(ids).did = did \/ Head(ids).ownerDid = Some(did)
        THEN WithoutDidAndItsAgents(Tail(ids), did)
    ELSE <<Head(ids)>> \o WithoutDidAndItsAgents(Tail(ids), did)

deleteIdentityCascades(ks, did) ==
    [disk EXCEPT ![ks.path] =
        [@ EXCEPT !.identities = WithoutDidAndItsAgents(@, did),
                  !.keys = {d \in @ : d # did
                                /\ \A i \in 1..Len(disk[ks.path].identities) :
                                     disk[ks.path].identities[i].did = d
                                       => disk[ks.path].identities[i].ownerDid # Some(did)}]]

\* keystore.deleteIdentity(did): the identity and its key material are removed
deleteIdentity(ks, did) ==
    [disk EXCEPT ![ks.path] =
        [@ EXCEPT !.identities = WithoutDid(@, did),
                  !.keys = @ \ {did}]]

-----------------------------------------------------------------------------
(* Output formatting *)

\* did.length: "did:key:" and the 48 characters of a multibase Ed25519 key
StrLen(did) == 8 + 48

DefaultMaxLength == 60

\* formatDid(did, maxLength = 60)
formatDid(did) ==
    IF StrLen(did) <= DefaultMaxLength THEN did
    ELSE <<"truncated", did, DefaultMaxLength - 3>>

\* `${did}#${did.split(':')[2]}`
Kid(did) == did \o <<"#", did[3]>>

-----------------------------------------------------------------------------
(* Error messages of the handlers *)

MsgIdentityNotFound(did) == <<"Identity", "not", "found", ":", did>>
MsgOwnerNotFound(did) == <<"Owner", "identity", "not", "found", ":", did>>
MsgNotAnOwner(did) == <<"Specified", "DID", "is", "not", "an", "owner", ":", did>>
MsgIssuerNotFound(did) == <<"Issuer", "identity", "not", "found", ":", did>>
MsgIssuerMustBeOwner(did) == <<"Issuer", "must", "be", "an", "owner", ":", did>>
MsgPrivateKeyNotFound(did) == <<"Private", "key", "not", "found", "for", ":", did>>
MsgFileNotFound(f) == <<"File", "not", "found", ":", f>>
MsgRequiresYes == <<"Deletion", "requires", "--yes", "flag", "to", "confirm">>
MsgInvalidJwt == <<"Invalid", "JWT", "format">>

-----------------------------------------------------------------------------
(* The run of a handler: what it called, what it threw, what it printed, and  *)
(* the state it leaves.  The catch block of every handler prints the          *)
(* normalised error and calls process.exit(1); a process that has exited has  *)
(* lost the static fields of KeystoreManager.                                 *)

\* The try block ran to its end
Done(r, calls, out, newDisk, newKeyCount, newAtCreation) ==
    [calls |-> r.calls \o calls, ks |-> r.ks, hit |-> r.hit, error |-> NULL,
     exit |-> 0, out |-> out, files |-> files,
     instance |-> r.instance, currentPath |-> r.currentPath,
     currentEncryption |-> r.currentEncryption,
     disk |-> newDisk, keyCount |-> newKeyCount, atCreation |-> newAtCreation]

\* The try block threw: catch (error) { normalizeError; console.error; process.exit(1) }
Thrown(r, calls, error) ==
    [calls |-> r.calls \o calls \o <<"process.exit">>, ks |-> r.ks, hit |-> r.hit,
     error |-> Some(normalizeError(error)),
     exit |-> 1, out |-> NULL, files |-> files,
     instance |-> NULL, currentPath |-> NULL, currentEncryption |-> NULL,
     disk |-> disk, keyCount |-> keyCount, atCreation |-> atCreation]

\* The handler called process.exit(1) itself, after printing out
Exited(r, calls, out, newDisk) ==
    [calls |-> r.calls \o calls \o <<"process.exit">>, ks |-> r.ks, hit |-> r.hit,
     error |-> NULL, exit |-> 1, out |-> out, files |-> files,
     instance |-> NULL, currentPath |-> NULL, currentEncryption |-> NULL,
     disk |-> newDisk, keyCount |-> keyCount, atCreation |-> atCreation]

\* A handler that does not open the keystore starts from this
NoKeystore ==
    [ok |-> TRUE, ks |-> NULL, hit |-> FALSE, calls |-> <<>>,
     instance |-> instance, currentPath |-> currentPath,
     currentEncryption |-> currentEncryption]

\* The state after a command invocation
Invoke(cmd, args, run) ==
    /\ instance' = run.instance
    /\ currentPath' = run.currentPath
    /\ currentEncryption' = run.currentEncryption
    /\ disk' = run.disk
    /\ keyCount' = run.keyCount
    /\ atCreation' = run.atCreation
    /\ files' = run.files
    /\ last' = [cmd |-> cmd, args |-> args, calls |-> run.calls, ks |-> run.ks,
                hit |-> run.hit, error |-> run.error, exit |-> run.exit,
                out |-> run.out, before |-> Before]

-----------------------------------------------------------------------------
(* create owner, create agent *)

FormatDate(t) == <<"toLocaleString", t>>

\* formatOutput(output, json) and the lines that follow it in table mode
CreateOutput(output, args, what) ==
    [format |-> IF args.json THEN "json" ELSE "table",
     data |-> output,
     notes |-> IF args.json THEN <<>>
               ELSE <<what>> \o (IF ~args.noEncryption THEN <<"IMPORTANT">> ELSE <<>>)]

\* An output object that carries the secret half of the key pair as well
OwnerOutputWithKey(did, name, createdAt) ==
    [did |-> did, kid |-> Kid(did), name |-> name, type |-> "owner",
     createdAt |-> createdAt, privateKey |-> PrivateKey(PublicKeyOf(did))]

\* const output = { did, kid, name, type: 'owner', createdAt }
OwnerOutput(did, name, createdAt) ==
    [did |-> did, kid |-> Kid(did), name |-> name, type |-> "owner",
     createdAt |-> createdAt]

createOwner(args) ==
    LET r == getNewKeystore(args.store, args.noEncryption) IN
    IF ~r.ok THEN Thrown(r, <<>>, r.error)
    ELSE
        LET ks == Get(r.ks)
            keyPair == generateKeyPair
            did == publicKeyToDidKey(keyPair)
            metadata == [did |-> did, type |-> "owner", name |-> args.name,
                         createdAt |-> now, ownerDid |-> NULL]
            output == OwnerOutput(did, args.name, metadata.createdAt)
        IN  Done(r, <<"init", "generateKeyPair", "storeIdentity", "console.log">>,
                 CreateOutput(output, args, "Owner identity created successfully"),
                 storeIdentity(ks, metadata), keyCount + 1, atCreation)

\* The owner check that lets an absent owner through (ownerIdentity?.type)
OwnerCheckTypeOnly(ownerIdentity, owner) ==
    IF ownerIdentity # NULL /\ Get(ownerIdentity).type # "owner"
    THEN Some(PlainError(MsgNotAnOwner(owner)))
    ELSE NULL

\* "Verify owner exists": the error the two tests throw, if any
OwnerCheck(ownerIdentity, owner) ==
    IF ownerIdentity = NULL THEN Some(PlainError(MsgOwnerNotFound(owner)))
    ELSE IF Get(ownerIdentity).type # "owner" THEN Some(PlainError(MsgNotAnOwner(owner)))
    ELSE NULL

\* The second half of create agent, from generateKeyPair to console.log; it
\* reads the store as it is when storeIdentity runs
StoreAgent(r, args) ==
    LET ks == Get(r.ks)
        keyPair == generateKeyPair
        did == publicKeyToDidKey(keyPair)
        metadata == [did |-> did, type |-> "agent", name |-> args.name,
                     createdAt |-> now, ownerDid |-> Some(args.owner)]
        output == [did |-> did, kid |-> Kid(did), name |-> args.name,
                   type |-> "agent", ownerDid |-> args.owner,
                   createdAt |-> metadata.createdAt]
        \* what the store holds for the owner when the agent is stored
        ownerThen == {o.type : o \in getIdentity(ks, args.owner)}
    IN  Done(r, <<"init", "getIdentity", "generateKeyPair", "storeIdentity",
                  "console.log">>,
             CreateOutput(output, args, "Agent identity created successfully"),
             storeIdentity(ks, metadata), keyCount + 1,
             atCreation \cup {[agent |-> did, ownerDid |-> args.owner,
                               ownerWas |-> ownerThen]})

\* A second half that looks the owner up again before it stores
StoreAgentRechecks(r, args) ==
    LET refused == OwnerCheck(getIdentity(Get(r.ks), args.owner), args.owner) IN
    IF refused # NULL THEN Thrown(r, <<"init", "getIdentity">>, Get(refused))
    ELSE StoreAgent(r, args)

\* Lines 235-260 of create agent, run by an invocation that has passed its
\* owner check
StoreStep(r, args) == StoreAgent(r, args)

createAgent(args) ==
    LET r == getNewKeystore(args.store, args.noEncryption) IN
    IF ~r.ok THEN Thrown(r, <<>>, r.error)
    ELSE
        LET ks == Get(r.ks)
            ownerIdentity == getIdentity(ks, args.owner)
            refused == OwnerCheck(ownerIdentity, args.owner)
        IN
        IF refused # NULL THEN Thrown(r, <<"init", "getIdentity">>, Get(refused))
        ELSE StoreAgent(r, args)

-----------------------------------------------------------------------------
(* list, inspect, delete *)

\* The block the human-readable list prints for one identity
ListEntry(identity) ==
    [type |-> identity.type, name |-> identity.name, did |-> formatDid(identity.did),
     created |-> FormatDate(identity.createdAt),
     owner |-> {formatDid(o) : o \in identity.ownerDid}]

\* The existence test reworded so that the message no longer says "not found"
ExistenceCheckReworded(identity, did) ==
    IF identity = NULL THEN Some(PlainError(<<"No", "such", "identity", ":", did>>))
    ELSE NULL

\* if (!identity) throw new Error(`Identity not found: ${options.did}`)
ExistenceCheck(identity, did) ==
    IF identity = NULL THEN Some(PlainError(MsgIdentityNotFound(did)))
    ELSE NULL

\* A delete that takes the agents of the identity with it
DeleteStepCascades(ks, did) == deleteIdentityCascades(ks, did)

\* await keystore.deleteIdentity(options.did)
DeleteStep(ks, did) == deleteIdentity(ks, did)

identityList(args) ==
    LET r == getKeystore(args.store, args.noEncryption) IN
    IF ~r.ok THEN Thrown(r, <<>>, r.error)
    ELSE
        LET identities == listIdentities(Get(r.ks)) IN
        Done(r, <<"init", "listIdentities", "console.log">>,
             IF args.json THEN [format |-> "json", data |-> identities]
             ELSE [format |-> "text",
                   data |-> [i \in 1..Len(identities) |-> ListEntry(identities[i])]],
             disk, keyCount, atCreation)

identityInspect(args) ==
    LET r == getKeystore(args.store, args.noEncryption) IN
    IF ~r.ok THEN Thrown(r, <<>>, r.error)
    ELSE
        LET identity == getIdentity(Get(r.ks), args.did)
            missing == ExistenceCheck(identity, args.did)
        IN
        IF missing # NULL THEN Thrown(r, <<"init", "getIdentity">>, Get(missing))
        ELSE
            LET id == Get(identity)
                output == [did |-> id.did, kid |-> Kid(id.did), name |-> id.name,
                           type |-> id.type, createdAt |-> id.createdAt,
                           ownerDid |-> id.ownerDid]
            IN  Done(r, <<"init", "getIdentity", "console.log">>,
                     [format |-> IF args.json THEN "json" ELSE "text", data |-> output],
                     disk, keyCount, atCreation)

identityDelete(args) ==
    LET r == getKeystore(args.store, args.noEncryption) IN
    IF ~r.ok THEN Thrown(r, <<>>, r.error)
    ELSE
        LET ks == Get(r.ks)
            identity == getIdentity(ks, args.did)
            missing == ExistenceCheck(identity, args.did)
        IN
        IF missing # NULL THEN Thrown(r, <<"init", "getIdentity">>, Get(missing))
        ELSE Done(r, <<"init", "getIdentity", "deleteIdentity", "console.log">>,
                  IF args.json
                  THEN [format |-> "json", data |-> [success |-> TRUE, did |-> args.did]]
                  ELSE [format |-> "text",
                        data |-> [name |-> Get(identity).name, did |-> formatDid(args.did)]],
                  DeleteStep(ks, args.did), keyCount, atCreation)

-----------------------------------------------------------------------------
(* The identity commands as actions *)

Names == {"Alice"}
Dids == {publicKeyToDidKey(k) : k \in 1..MaxKeys}
StoreArgs == {NULL, Some(<<"s1">>)}

CommonArgs == [store : StoreArgs, noEncryption : BOOLEAN, json : BOOLEAN]
HumanArgs == [store : StoreArgs, noEncryption : BOOLEAN, json : {FALSE}]

With(common, extra) == [x \in DOMAIN common \cup DOMAIN extra |->
                          IF x \in DOMAIN extra THEN extra[x] ELSE common[x]]

CreateOwnerCommand(args) ==
    LET run == createOwner(args) IN
    /\ run.keyCount <= MaxKeys
    /\ Invoke("create owner", args, run)
    /\ UNCHANGED <<envVars, now, response, inFlight, host>>

CreateAgentCommand(args) ==
    LET run == createAgent(args) IN
    /\ run.keyCount <= MaxKeys
    /\ Invoke("create agent", args, run)
    /\ UNCHANGED <<envVars, now, response, inFlight, host>>

ListCommand(args) ==
    /\ Invoke("list", args, identityList(args))
    /\ UNCHANGED <<envVars, now, response, inFlight, host>>

InspectCommand(args) ==
    /\ Invoke("inspect", args, identityInspect(args))
    /\ UNCHANGED <<envVars, now, response, inFlight, host>>

DeleteCommand(args) ==
    /\ Invoke("delete", args, identityDelete(args))
    /\ UNCHANGED <<envVars, now, response, inFlight, host>>

InitId ==
    /\ Init
    /\ envHome = NULL
    /\ envPassphrase \in {Undefined, "pw1"}

NextId ==
    \/ \E c \in CommonArgs, n \in Names : CreateOwnerCommand(With(c, [name |-> n]))
    \/ \E c \in CommonArgs, n \in Names, o \in Dids :
         CreateAgentCommand(With(c, [name |-> n, owner |-> o]))
    \/ \E c \in CommonArgs : ListCommand(c)
    \/ \E c \in CommonArgs, d \in Dids : InspectCommand(With(c, [did |-> d]))
    \/ \E c \in HumanArgs, d \in Dids : DeleteCommand(With(c, [did |-> d]))

SpecId == InitId /\ [][NextId]_vars

-----------------------------------------------------------------------------
(* Plugin registration.  The host's program is the sequence of the command   *)
(* paths added to it, in the order they were added; parent.command(name)     *)
(* adds the path of a new sub-command under parent.                          *)

\* parent.command(name): a new sub-command attached to parent
Attach(program, parent, name) == Append(program, parent \o <<name>>)

\* create.ts, identity.ts and vc.ts: parent.command('<name>') ... .action(...)
createOwnerCommand(program, parent) == Attach(program, parent, "owner")
createAgentCommand(program, parent) == Attach(program, parent, "agent")
identityListCommand(program, parent) == Attach(program, parent, "list")
identityInspectCommand(program, parent) == Attach(program, parent, "inspect")
identityDeleteCommand(program, parent) == Attach(program, parent, "delete")
issueOwnershipCommand(program, parent) == Attach(program, parent, "ownership")
issueCapabilityCommand(program, parent) == Attach(program, parent, "capability")
vcVerifyCommand(program, parent) == Attach(program, parent, "verify")
vcListCommand(program, parent) == Attach(program, parent, "list")
vcInspectCommand(program, parent) == Attach(program, parent, "inspect")
vcDeleteCommand(program, parent) == Attach(program, parent, "delete")

\* auth.ts: signCommand() and verifyCommand() take no parameter and return
\* new Command('sign') and new Command('verify'); the argument register passes
\* is ignored and the command returned is attached to nothing
signCommand(program, parent) == program
authVerifyCommand(program, parent) == program

\* The callback register hands to api.registerCli, applied to the host's program
RegisterCallback(program) ==
    LET agentDidCmd == <<"agent-did">>
        p1 == Append(program, agentDidCmd)
        createCmd == agentDidCmd \o <<"create">>
        p2 == Append(p1, createCmd)
        p3 == createOwnerCommand(p2, createCmd)
        p4 == createAgentCommand(p3, createCmd)
        p5 == identityListCommand(p4, agentDidCmd)
        p6 == identityInspectCommand(p5, agentDidCmd)
        p7 == identityDeleteCommand(p6, agentDidCmd)
        vcCmd == agentDidCmd \o <<"vc">>
        p8 == Append(p7, vcCmd)
        issueCmd == vcCmd \o <<"issue">>
        p9 == Append(p8, issueCmd)
        p10 == issueOwnershipCommand(p9, issueCmd)
        p11 == issueCapabilityCommand(p10, issueCmd)
        p12 == vcVerifyCommand(p11, vcCmd)
        p13 == vcListCommand(p12, vcCmd)
        p14 == vcInspectCommand(p13, vcCmd)
        p15 == vcDeleteCommand(p14, vcCmd)
        authCmd == agentDidCmd \o <<"auth">>
        p16 == Append(p15, authCmd)
        p17 == signCommand(p16, authCmd)
    IN  authVerifyCommand(p17, authCmd)

\* The commands the host has of its own
HostCommands == {"help", "plugins", "gateway"}

\* What a user may type after the name of the host's executable
Argvs ==
    {<<"agent-did">> \o rest : rest \in
        {<<>>, <<"create">>, <<"create", "owner">>, <<"create", "agent">>,
         <<"list">>, <<"inspect">>, <<"delete">>, <<"vc">>, <<"vc", "issue">>,
         <<"vc", "issue", "ownership">>, <<"vc", "issue", "capability">>,
         <<"vc", "verify">>, <<"vc", "list">>, <<"vc", "inspect">>,
         <<"vc", "delete">>, <<"auth">>, <<"auth", "sign">>, <<"auth", "verify">>}}
    \cup {<<h>> : h \in HostCommands}

\* The paths of a program, as a set
Paths(program) == {program[i] : i \in 1..Len(program)}

\* register(api): one call of api.registerCli with the callback and
\* { commands: ['agent-did'] }
Register ==
    /\ host.declared = <<>>
    /\ host' = [host EXCEPT !.declared = Append(@, <<"agent-did">>),
                            !.pending = TRUE]
    /\ last' = [Idle EXCEPT !.cmd = "register", !.calls = <<"registerCli">>]
    /\ UNCHANGED <<envVars, ksVars, disk, keyCount, files, now, atCreation,
                   response, inFlight>>

\* The host calls the callback it was given, with its program
RunCallback ==
    /\ host.pending
    /\ host' = [host EXCEPT !.program = RegisterCallback(@),
                            !.pending = FALSE, !.ran = TRUE]
    /\ last' = [Idle EXCEPT !.cmd = "callback"]
    /\ UNCHANGED <<envVars, ksVars, disk, keyCount, files, now, atCreation,
                   response, inFlight>>

\* The host adds a command of its own to its program
HostAdds(name) ==
    /\ <<name>> \notin Paths(host.program)
    /\ host' = [host EXCEPT !.program = Append(@, <<name>>)]
    /\ UNCHANGED <<envVars, ksVars, disk, keyCount, files, now, atCreation,
                   response, inFlight, last>>

\* The host parses a command line: the deepest command of its program that the
\* words lead to, and whether every word was the name of a command
Dispatch(argv) ==
    LET found == {n \in 0..Len(argv) :
                     \A k \in 1..n : SubSeq(argv, 1, k) \in Paths(host.program)}
        depth == CHOOSE n \in found : \A m \in found : m <= n
    IN
    /\ last' = [Idle EXCEPT !.cmd = "dispatch",
                            !.args = [argv |-> argv],
                            !.out = Some([command |-> SubSeq(argv, 1, depth),
                                          known |-> depth = Len(argv)]),
                            !.exit = IF depth = Len(argv) THEN 0 ELSE 1]
    /\ UNCHANGED <<envVars, ksVars, disk, keyCount, files, now, atCreation,
                   response, inFlight, host>>

InitCli ==
    /\ Init
    /\ envHome = NULL
    /\ envPassphrase = Undefined

NextCli ==
    \/ Register
    \/ RunCallback
    \/ \E name \in HostCommands : HostAdds(name)
    \/ \E argv \in Argvs : Dispatch(argv)

SpecCli == InitCli /\ [][NextCli]_vars

-----------------------------------------------------------------------------
(* Invocations that overlap.  The handlers take no lock, and every call on   *)
(* the keystore is awaited, so another invocation can run between the owner  *)
(* check of create agent (lines 226-233) and its storeIdentity (line 249).   *)
(* The invocation in flight has its own keystore from getNewKeystore and     *)
(* shares only the store on disk with the others.                            *)

\* create agent up to and including the owner check, when the check passes
CreateAgentCheck(args) ==
    /\ inFlight = NULL
    /\ LET r == getNewKeystore(args.store, args.noEncryption) IN
       /\ r.ok
       /\ OwnerCheck(getIdentity(Get(r.ks), args.owner), args.owner) = NULL
       /\ inFlight' = Some([args |-> args, r |-> r])
    /\ UNCHANGED <<envVars, ksVars, disk, keyCount, files, now, atCreation,
                   response, host, last>>

\* the rest of that create agent, on the store as it is by then
CreateAgentStore ==
    /\ inFlight # NULL
    /\ LET p == Get(inFlight)
           r == [p.r EXCEPT !.instance = instance, !.currentPath = currentPath,
                            !.currentEncryption = currentEncryption]
           run == StoreStep(r, p.args)
       IN
       /\ keyCount < MaxKeys
       /\ Invoke("create agent", p.args, run)
    /\ inFlight' = NULL
    /\ UNCHANGED <<envVars, now, response, host>>

NextRace ==
    \/ \E c \in HumanArgs, n \in Names : CreateOwnerCommand(With(c, [name |-> n]))
    \/ \E c \in HumanArgs, n \in Names, o \in Dids :
         CreateAgentCheck(With(c, [name |-> n, owner |-> o]))
    \/ CreateAgentStore
    \/ \E c \in HumanArgs, d \in Dids : DeleteCommand(With(c, [did |-> d]))

SpecRace == InitId /\ [][NextRace]_vars

-----------------------------------------------------------------------------
(* The agent-did credential functions.  A token is its payload and its        *)
(* signature; a signature is the key that made it and the payload it was made *)
(* over.                                                                      *)

\* createOwnershipCredential(issuer, subject, {name, createdAt})
createOwnershipCredential(issuer, subject, hints) ==
    [iss |-> issuer, sub |-> subject, iat |-> now, exp |-> NULL,
     vc |-> [type |-> "ownership", hints |-> hints, scopes |-> <<>>, audience |-> NULL]]

\* A scope list the library accepts: not empty, no empty entry
ValidScopes(scopes) == scopes # <<>> /\ \A i \in 1..Len(scopes) : scopes[i] # <<>>

MsgInvalidScopes == <<"InvalidScopes">>

\* createCapabilityCredential(issuer, subject, scopes, {audience, expires}):
\* the credential, or the error it throws
createCapabilityCredential(issuer, subject, scopes, opts) ==
    IF ~ValidScopes(scopes) THEN [ok |-> FALSE, error |-> PlainError(MsgInvalidScopes)]
    ELSE [ok |-> TRUE,
          value |-> [iss |-> issuer, sub |-> subject, iat |-> now, exp |-> opts.expires,
                     vc |-> [type |-> "capability", hints |-> NULL, scopes |-> scopes,
                             audience |-> opts.audience]]]

\* signCredential(credential, privateKey, publicKey)
signCredential(credential, keyPair) ==
    [payload |-> credential, sig |-> [by |-> keyPair, over |-> credential]]

\* A file content that is a token, as against any other text
IsToken(content) == content.kind = "jwt"

\* verifyCredential(jwt, {allowedIssuers, expectedSubject}): decode, signature,
\* expiry, allowed issuers, expected subject, in that order
verifyCredential(content, opts) ==
    IF ~IsToken(content) THEN [valid |-> FALSE, payload |-> NULL, reason |-> "MalformedToken"]
    ELSE
        LET payload == content.jwt.payload
            sig == content.jwt.sig
        IN
        IF sig.by # PublicKeyOf(payload.iss) \/ sig.over # payload
            THEN [valid |-> FALSE, payload |-> NULL, reason |-> "InvalidSignature"]
        ELSE IF payload.exp # NULL /\ now > Get(payload.exp)
            THEN [valid |-> FALSE, payload |-> NULL, reason |-> "Expired"]
        ELSE IF opts.allowedIssuers # NULL /\ payload.iss \notin Get(opts.allowedIssuers)
            THEN [valid |-> FALSE, payload |-> NULL, reason |-> "IssuerNotAllowed"]
        ELSE IF opts.expectedSubject # NULL /\ payload.sub # Get(opts.expectedSubject)
            THEN [valid |-> FALSE, payload |-> NULL, reason |-> "SubjectMismatch"]
        ELSE [valid |-> TRUE, payload |-> Some(payload), reason |-> NULL]

\* keystore.deleteCredential(id): whether a credential was stored under the id,
\* and the store afterwards
deleteCredential(ks, id) ==
    [deleted |-> \E c \in disk[ks.path].credentials : c.id = id,
     disk |-> [disk EXCEPT ![ks.path].credentials = {c \in @ : c.id # id}]]

-----------------------------------------------------------------------------
(* vc issue ownership, vc issue capability *)

\* The issuer check without the test of the type
IssuerCheckExistenceOnly(issuerIdentity, issuer) ==
    IF issuerIdentity = NULL THEN Some(PlainError(MsgIssuerNotFound(issuer)))
    ELSE NULL

\* "Get issuer identity": the error the two tests throw, if any
IssuerCheck(issuerIdentity, issuer) ==
    IF issuerIdentity = NULL THEN Some(PlainError(MsgIssuerNotFound(issuer)))
    ELSE IF Get(issuerIdentity).type # "owner"
        THEN Some(PlainError(MsgIssuerMustBeOwner(issuer)))
    ELSE NULL

\* "Output": the token goes to the --out file or to stdout
IssueOutput(r, calls, jwt, args) ==
    IF Truthy(args.out)
    THEN LET outputPath == PathResolve(Get(args.out)) IN
         [Done(r, calls \o <<"writeFileSync", "console.log">>,
               [format |-> IF args.json THEN "json" ELSE "text",
                data |-> [success |-> TRUE, file |-> outputPath]],
               disk, keyCount, atCreation)
          EXCEPT !.files = [files EXCEPT ![outputPath] = Some([kind |-> "jwt", jwt |-> jwt])]]
    ELSE Done(r, calls \o <<"console.log">>,
              [format |-> IF args.json THEN "json" ELSE "text", data |-> [jwt |-> jwt]],
              disk, keyCount, atCreation)

\* The key pair test of a handler that has opened its --out file beforehand,
\* leaving it empty
KeyPairMissingAfterOpen(r, calls, args) ==
    [Thrown(r, calls, PlainError(MsgPrivateKeyNotFound(args.issuer)))
     EXCEPT !.files = [f \in DOMAIN files |->
                         IF Truthy(args.out) /\ f = PathResolve(Get(args.out))
                         THEN Some([kind |-> "truncated", jwt |-> NULL])
                         ELSE files[f]]]

\* if (!keyPair) throw new Error(`Private key not found for: ${options.issuer}`)
KeyPairMissing(r, calls, args) ==
    Thrown(r, calls, PlainError(MsgPrivateKeyNotFound(args.issuer)))

\* A credential made out the wrong way round
OwnershipCredentialSwapped(args, subjectIdentity) ==
    createOwnershipCredential(args.subject, args.issuer,
        {[name |-> i.name, createdAt |-> i.createdAt] : i \in subjectIdentity})

\* "Create credential": createOwnershipCredential(options.issuer,
\* options.subject, {name: subjectIdentity?.name, createdAt: ...})
OwnershipCredential(args, subjectIdentity) ==
    createOwnershipCredential(args.issuer, args.subject,
        {[name |-> i.name, createdAt |-> i.createdAt] : i \in subjectIdentity})

issueOwnership(args) ==
    LET r == getKeystore(args.store, args.noEncryption) IN
    IF ~r.ok THEN Thrown(r, <<>>, r.error)
    ELSE
        LET ks == Get(r.ks)
            issuerIdentity == getIdentity(ks, args.issuer)
            refused == IssuerCheck(issuerIdentity, args.issuer)
        IN
        IF refused # NULL THEN Thrown(r, <<"init", "getIdentity">>, Get(refused))
        ELSE
            LET subjectIdentity == getIdentity(ks, args.subject)
                credential == OwnershipCredential(args, subjectIdentity)
                keyPair == getKeyPair(ks, args.issuer)
                calls == <<"init", "getIdentity", "getIdentity",
                           "createOwnershipCredential", "getKeyPair">>
            IN
            IF keyPair = NULL THEN KeyPairMissing(r, calls, args)
            ELSE IssueOutput(r, calls \o <<"signCredential">>,
                             signCredential(credential, Get(keyPair)), args)

\* String.prototype.split(',') on a tuple of characters
RECURSIVE Split(_)
Split(str) ==
    IF \A i \in 1..Len(str) : str[i] # ","
    THEN <<str>>
    ELSE LET i == CHOOSE k \in 1..Len(str) :
                      str[k] = "," /\ \A j \in 1..(k - 1) : str[j] # ","
         IN  <<SubSeq(str, 1, i - 1)>> \o Split(SubSeq(str, i + 1, Len(str)))

\* String.prototype.trim
RECURSIVE Trim(_)
Trim(str) ==
    IF str = <<>> THEN str
    ELSE IF Head(str) = " " THEN Trim(Tail(str))
    ELSE IF str[Len(str)] = " " THEN Trim(SubSeq(str, 1, Len(str) - 1))
    ELSE str

\* A parse that leaves the empty entries out
ParseScopesSkipsEmpty(str) ==
    LET parts == Split(str) IN
    SelectSeq([i \in 1..Len(parts) |-> Trim(parts[i])], LAMBDA x : x # <<>>)

\* options.scopes.split(',').map((s) => s.trim())
ParseScopes(str) == LET parts == Split(str) IN [i \in 1..Len(parts) |-> Trim(parts[i])]

issueCapability(args) ==
    LET r == getKeystore(args.store, args.noEncryption) IN
    IF ~r.ok THEN Thrown(r, <<>>, r.error)
    ELSE
        LET ks == Get(r.ks)
            issuerIdentity == getIdentity(ks, args.issuer)
            refused == IssuerCheck(issuerIdentity, args.issuer)
        IN
        IF refused # NULL THEN Thrown(r, <<"init", "getIdentity">>, Get(refused))
        ELSE
            LET scopes == ParseScopes(args.scopes)
                credential == createCapabilityCredential(args.issuer, args.subject, scopes,
                                  [audience |-> args.audience, expires |-> args.expires])
                keyPair == getKeyPair(ks, args.issuer)
                calls == <<"init", "getIdentity", "createCapabilityCredential">>
            IN
            IF ~credential.ok THEN Thrown(r, calls, credential.error)
            ELSE IF keyPair = NULL
            THEN KeyPairMissing(r, calls \o <<"getKeyPair">>, args)
            ELSE IssueOutput(r, calls \o <<"getKeyPair", "signCredential">>,
                             signCredential(credential.value, Get(keyPair)), args)

-----------------------------------------------------------------------------
(* vc verify, vc delete *)

\* A verification that also wants the issuer in the default keystore
VerifyStepLooksUpIssuer(content, args) ==
    LET result == verifyCredential(content,
                      [allowedIssuers |-> {{i} : i \in args.issuer},
                       expectedSubject |-> args.subject])
    IN  IF result.valid
           /\ \A i \in 1..Len(disk[DefaultStorePath].identities) :
                 Some(disk[DefaultStorePath].identities[i].did) # {p.iss : p \in result.payload}
        THEN [valid |-> FALSE, payload |-> NULL, reason |-> "IssuerNotFound"]
        ELSE result

\* A verification that is given no expected subject
VerifyStepWithoutSubject(content, args) ==
    verifyCredential(content,
        [allowedIssuers |-> {{i} : i \in args.issuer},
         expectedSubject |-> NULL])

\* verifyCredential(jwt, {allowedIssuers: options.issuer ? [options.issuer]
\* : undefined, expectedSubject: options.subject})
VerifyStep(content, args) ==
    verifyCredential(content,
        [allowedIssuers |-> {{i} : i \in args.issuer},
         expectedSubject |-> args.subject])

vcVerify(args) ==
    LET filePath == PathResolve(args.file) IN
    IF files[filePath] = NULL
    THEN Thrown(NoKeystore, <<"existsSync">>, PlainError(MsgFileNotFound(filePath)))
    ELSE
        LET jwt == Get(files[filePath])
            result == VerifyStep(jwt, args)
            calls == <<"existsSync", "readFileSync", "verifyCredential">>
        IN
        IF args.json
        THEN Done(NoKeystore, calls \o <<"console.log">>,
                  [format |-> "json", data |-> result], disk, keyCount, atCreation)
        ELSE IF result.valid
        THEN Done(NoKeystore, calls \o <<"console.log">>,
                  [format |-> "text", data |-> result], disk, keyCount, atCreation)
        ELSE Exited(NoKeystore, calls \o <<"console.error">>,
                    [format |-> "text", data |-> result], disk)

\* A handler that does not ask for the confirmation
ConfirmCheckSkipped(args) == NULL

\* if (!options.yes) throw: the error, if any
ConfirmCheck(args) ==
    IF ~args.yes THEN Some(PlainError(MsgRequiresYes)) ELSE NULL

vcDelete(args) ==
    IF ConfirmCheck(args) # NULL THEN Thrown(NoKeystore, <<>>, Get(ConfirmCheck(args)))
    ELSE
        LET r == getKeystore(args.store, args.noEncryption) IN
        IF ~r.ok THEN Thrown(r, <<>>, r.error)
        ELSE
            LET d == deleteCredential(Get(r.ks), args.id)
                out == [deleted |-> d.deleted, id |-> args.id]
            IN
            IF args.json
            THEN Done(r, <<"deleteCredential", "console.log">>,
                      [format |-> "json", data |-> out], d.disk, keyCount, atCreation)
            ELSE IF d.deleted
            THEN Done(r, <<"deleteCredential", "console.log">>,
                      [format |-> "text", data |-> out], d.disk, keyCount, atCreation)
            ELSE Exited(r, <<"deleteCredential", "console.error">>,
                        [format |-> "text", data |-> out], d.disk)

-----------------------------------------------------------------------------
(* vc inspect *)

\* The header of every token the library signs
JwtHeader == [alg |-> "EdDSA", typ |-> "JWT"]

\* decodeCredential(jwt): header and payload of a text that has the three parts
\* of a token, whatever its signature and its expiry; null for any other text
decodeCredential(text) ==
    IF text.kind = "jwt" THEN Some([header |-> JwtHeader, payload |-> text.jwt.payload])
    ELSE NULL

\* An extraction that looks at the jwt field first
ExtractJwtPrefersJwt(fileContent) ==
    IF fileContent.kind # "json" THEN fileContent
    ELSE IF fileContent.jwt # NULL
        THEN [kind |-> "jwt", jwt |-> Get(fileContent.jwt)]
    ELSE IF fileContent.credential # NULL
        THEN [kind |-> "jwt", jwt |-> Get(fileContent.credential)]
    ELSE fileContent

\* "Extract JWT": parsed.credential || parsed.jwt || fileContent.trim() for a
\* file that parses as JSON, fileContent.trim() for any other file
ExtractJwt(fileContent) ==
    IF fileContent.kind # "json" THEN fileContent
    ELSE IF fileContent.credential # NULL
        THEN [kind |-> "jwt", jwt |-> Get(fileContent.credential)]
    ELSE IF fileContent.jwt # NULL
        THEN [kind |-> "jwt", jwt |-> Get(fileContent.jwt)]
    ELSE fileContent

\* A decode that gives nothing for a token whose signature is not its issuer's
DecodeStepChecksSignature(jwt) ==
    IF jwt.jwt.sig.by # PublicKeyOf(jwt.jwt.payload.iss) THEN NULL
    ELSE decodeCredential(jwt)

\* "Decode without verifying"
DecodeStep(jwt) == decodeCredential(jwt)

vcInspect(args) ==
    LET filePath == PathResolve(args.file) IN
    IF files[filePath] = NULL
    THEN Thrown(NoKeystore, <<"existsSync">>, PlainError(MsgFileNotFound(filePath)))
    ELSE
        LET jwt == ExtractJwt(Get(files[filePath]))
            decoded == DecodeStep(jwt)
            calls == <<"existsSync", "readFileSync", "decodeCredential">>
        IN
        IF decoded = NULL THEN Thrown(NoKeystore, calls, PlainError(MsgInvalidJwt))
        ELSE Done(NoKeystore, calls \o <<"console.log">>,
                  [format |-> IF args.json THEN "json" ELSE "text", data |-> Get(decoded)],
                  disk, keyCount, atCreation)

-----------------------------------------------------------------------------
(* The credential commands as actions *)

ScopeArgs == {<<"r", ",", " ", "w">>}
CredentialIds == {"cred-1"}
\* A capability that expires at the start of the run; an ownership credential
\* never expires
ExpiresArgs == {Some(0)}
\* The issuer of a credential is the first identity or the second, the
\* subject the second
VcIssuers == {publicKeyToDidKey(1), publicKeyToDidKey(2)}
VcSubjects == {publicKeyToDidKey(2)}
\* vc verify --issuer: absent, or the first identity
ExpectedIssuers == {NULL, Some(publicKeyToDidKey(1))}

\* One store, opened with the passphrase of the environment
VcArgs == [store : {NULL}, noEncryption : {FALSE}, json : {FALSE}]
VcJsonArgs == [store : {NULL}, noEncryption : {FALSE}, json : BOOLEAN]

IssueOwnershipCommand(args) ==
    /\ Invoke("vc issue ownership", args, issueOwnership(args))
    /\ UNCHANGED <<envVars, now, response, inFlight, host>>

IssueCapabilityCommand(args) ==
    /\ Invoke("vc issue capability", args, issueCapability(args))
    /\ UNCHANGED <<envVars, now, response, inFlight, host>>

VcVerifyCommand(args) ==
    /\ Invoke("vc verify", args, vcVerify(args))
    /\ UNCHANGED <<envVars, now, response, inFlight, host>>

VcDeleteCommand(args) ==
    /\ Invoke("vc delete", args, vcDelete(args))
    /\ UNCHANGED <<envVars, now, response, inFlight, host>>

VcInspectCommand(args) ==
    /\ Invoke("vc inspect", args, vcInspect(args))
    /\ UNCHANGED <<envVars, now, response, inFlight, host>>

\* A second of wall-clock time passes
Tick ==
    /\ now < MaxTime
    /\ now' = now + 1
    /\ UNCHANGED <<envVars, ksVars, disk, keyCount, files, atCreation, response, inFlight, host, last>>

\* A token this program did not issue: it names the first identity as its
\* issuer and carries the signature of another key
ForgedToken ==
    LET payload == [iss |-> publicKeyToDidKey(1), sub |-> publicKeyToDidKey(2),
                    iat |-> 0, exp |-> NULL,
                    vc |-> [type |-> "ownership", hints |-> NULL, scopes |-> <<>>,
                            audience |-> NULL]]
    IN  [payload |-> payload, sig |-> [by |-> 0, over |-> payload]]

\* What the token file may hold before the first command: nothing, a forged
\* token, or a token cut short that does not decode
ForeignContents ==
    {NULL, Some([kind |-> "jwt", jwt |-> ForgedToken]),
     Some([kind |-> "truncated", jwt |-> ForgedToken])}

InitVc ==
    /\ envPassphrase = "pw1"
    /\ instance = NULL
    /\ currentPath = NULL
    /\ currentEncryption = NULL
    /\ disk = [p \in StorePaths |-> EmptyStore]
    /\ keyCount = 0
    /\ files \in [FilePaths -> ForeignContents]
    /\ now = 0
    /\ atCreation = {}
    /\ response = NULL
    /\ inFlight = NULL
    /\ host = Unloaded
    /\ last = Idle
    /\ envHome = NULL

NextVc ==
    \/ \E c \in VcArgs, n \in Names : CreateOwnerCommand(With(c, [name |-> n]))
    \/ \E c \in VcArgs, n \in Names, o \in VcIssuers :
         CreateAgentCommand(With(c, [name |-> n, owner |-> o]))
    \/ \E c \in VcArgs, d \in VcIssuers : DeleteCommand(With(c, [did |-> d]))
    \/ \E c \in VcArgs, i \in VcIssuers, s \in VcSubjects, o \in {Some(f) : f \in FileArgs} :
         IssueOwnershipCommand(With(c, [issuer |-> i, subject |-> s, out |-> o]))
    \/ \E c \in VcArgs, i \in VcIssuers, s \in VcSubjects, sc \in ScopeArgs, e \in ExpiresArgs,
          o \in {Some(f) : f \in FileArgs} :
         IssueCapabilityCommand(With(c, [issuer |-> i, subject |-> s, scopes |-> sc,
                                         audience |-> NULL, expires |-> e, out |-> o]))
    \/ \E j \in BOOLEAN, f \in FileArgs, i \in ExpectedIssuers :
         VcVerifyCommand([file |-> f, issuer |-> i, subject |-> NULL, json |-> j])
    \/ \E c \in VcJsonArgs, id \in CredentialIds, y \in BOOLEAN :
         VcDeleteCommand(With(c, [id |-> id, yes |-> y]))
    \/ Tick

SpecVc == InitVc /\ [][NextVc]_vars

-----------------------------------------------------------------------------
(* parseInt(string, 10) on a tuple of characters *)

Digits == <<"0", "1", "2", "3", "4", "5", "6", "7", "8", "9">>
IsDigit(c) == \E i \in 1..Len(Digits) : Digits[i] = c
DigitValue(c) == (CHOOSE i \in 1..Len(Digits) : Digits[i] = c) - 1

\* The value of the longest prefix of digits, given the value read so far;
\* NaN (the empty set) when there is no digit to read
RECURSIVE ParseDigits(_, _)
ParseDigits(str, acc) ==
    IF str = <<>> \/ ~IsDigit(Head(str)) THEN acc
    ELSE ParseDigits(Tail(str),
                     Some((IF acc = NULL THEN 0 ELSE 10 * Get(acc)) + DigitValue(Head(str))))

\* parseInt(str, 10): leading white space is skipped, a sign is read, then the
\* digits up to the first character that is not one
RECURSIVE ParseInt(_)
ParseInt(str) ==
    IF str = <<>> THEN NULL
    ELSE IF Head(str) = " " THEN ParseInt(Tail(str))
    ELSE IF Head(str) = "-" THEN {0 - n : n \in ParseDigits(Tail(str), NULL)}
    ELSE IF Head(str) = "+" THEN ParseDigits(Tail(str), NULL)
    ELSE ParseDigits(str, NULL)

-----------------------------------------------------------------------------
(* The agent-did challenge functions.  An encoded payload is the payload and  *)
(* its encoding; a signature is the key that made it and the encoded payload  *)
(* it was made over.                                                          *)

Base64Url(payload) == [enc |-> "base64url", of |-> payload]

\* The payload an encoded payload decodes to, if it decodes
DecodePayload(encoded) == IF encoded.enc = "base64url" THEN Some(encoded.of) ELSE NULL

\* signAuthChallenge(did, privateKey, publicKey, challenge, {audience, domain,
\* expiresIn}); exp is not a number when expiresIn is not one
signAuthChallenge(did, keyPair, challenge, opts) ==
    LET payload == [nonce |-> challenge, aud |-> opts.audience, domain |-> opts.domain,
                    iat |-> now, exp |-> {now + n : n \in opts.expiresIn}, did |-> did]
    IN  [did |-> did, kid |-> Kid(did), alg |-> "EdDSA",
         payloadEncoded |-> Base64Url(payload),
         signature |-> [by |-> keyPair, over |-> Base64Url(payload)],
         createdAt |-> payload.iat, expiresAt |-> payload.exp]

AuthInvalid(reason) == [valid |-> FALSE, payload |-> NULL, reason |-> Some(reason)]

\* verifyAuthChallenge(did, payload, signature, {expectedNonce,
\* expectedAudience, expectedDomain}): decode, signature, window, expectations.
\* What the comparison with an exp that is not a number yields is the
\* library's choice, given here as nanExpires.
verifyAuthChallenge(did, payloadEncoded, signature, opts, nanExpires) ==
    LET decoded == DecodePayload(payloadEncoded) IN
    IF decoded = NULL THEN AuthInvalid("MalformedPayload")
    ELSE
        LET payload == Get(decoded) IN
        IF signature.by # PublicKeyOf(did) \/ signature.over # payloadEncoded
            THEN AuthInvalid("InvalidSignature")
        ELSE IF \/ payload.exp = NULL /\ nanExpires
                \/ payload.exp # NULL /\ ~(payload.iat <= now /\ now <= Get(payload.exp))
            THEN AuthInvalid("Expired")
        ELSE IF opts.expectedNonce # NULL /\ Some(payload.nonce) # opts.expectedNonce
            THEN AuthInvalid("NonceMismatch")
        ELSE IF opts.expectedAudience # NULL /\ payload.aud # opts.expectedAudience
            THEN AuthInvalid("AudienceMismatch")
        ELSE IF opts.expectedDomain # NULL /\ payload.domain # opts.expectedDomain
            THEN AuthInvalid("DomainMismatch")
        ELSE [valid |-> TRUE, payload |-> Some(payload), reason |-> NULL]

-----------------------------------------------------------------------------
(* auth sign, auth verify *)

\* .option('--expires-in <seconds>', ..., '120'): the option, or its default
DefaultExpiresIn == <<"1", "2", "0">>
ExpiresInOption(args) ==
    IF args.expiresIn = NULL THEN DefaultExpiresIn ELSE Get(args.expiresIn)

\* expiresIn: parseInt(options.expiresIn, 10)
ExpiresIn(args) == ParseInt(ExpiresInOption(args))

\* The two tests with a third that lets only agents sign
SignerCheckAgentsOnly(identity, keyPair, did) ==
    IF identity = NULL \/ Get(identity).type # "agent"
    THEN Some([calls |-> <<"init", "getIdentity">>,
               error |-> PlainError(MsgIdentityNotFound(did))])
    ELSE IF keyPair = NULL
    THEN Some([calls |-> <<"init", "getIdentity", "getKeyPair">>,
               error |-> PlainError(MsgPrivateKeyNotFound(did))])
    ELSE NULL

\* "Validate identity exists" and "Get key pair": the error thrown, if any, and
\* the keystore calls made up to it
SignerCheck(identity, keyPair, did) ==
    IF identity = NULL
    THEN Some([calls |-> <<"init", "getIdentity">>,
               error |-> PlainError(MsgIdentityNotFound(did))])
    ELSE IF keyPair = NULL
    THEN Some([calls |-> <<"init", "getIdentity", "getKeyPair">>,
               error |-> PlainError(MsgPrivateKeyNotFound(did))])
    ELSE NULL

authSign(args) ==
    LET r == getKeystore(args.store, args.noEncryption) IN
    IF ~r.ok THEN Thrown(r, <<>>, r.error)
    ELSE
        LET ks == Get(r.ks)
            identity == getIdentity(ks, args.did)
            keyPair == getKeyPair(ks, args.did)
            refused == SignerCheck(identity, keyPair, args.did)
        IN
        IF refused # NULL THEN Thrown(r, Get(refused).calls, Get(refused).error)
        ELSE
            LET result == signAuthChallenge(args.did, Get(keyPair), args.challenge,
                              [audience |-> args.audience, domain |-> args.domain,
                               expiresIn |-> ExpiresIn(args)])
            IN  Done(r, <<"init", "getIdentity", "getKeyPair", "signAuthChallenge",
                          "console.log">>,
                     [format |-> IF args.json THEN "json" ELSE "text", data |-> result],
                     disk, keyCount, atCreation)

\* A verification that checks the challenge only, not the audience or domain
AuthVerifyStepNonceOnly(args, nanExpires) ==
    verifyAuthChallenge(args.did, args.payload, args.signature,
        [expectedNonce |-> args.nonce, expectedAudience |-> NULL,
         expectedDomain |-> NULL], nanExpires)

\* A verification that turns down a challenge it has accepted before
AuthVerifyStepOnce(args, nanExpires) ==
    IF \E h \in response : h.accepted /\ h.result.payloadEncoded = args.payload
    THEN AuthInvalid("Replayed")
    ELSE verifyAuthChallenge(args.did, args.payload, args.signature,
             [expectedNonce |-> args.nonce, expectedAudience |-> args.audience,
              expectedDomain |-> args.domain], nanExpires)

\* verifyAuthChallenge(options.did, options.payload, options.signature,
\* {expectedNonce, expectedAudience, expectedDomain})
AuthVerifyStep(args, nanExpires) ==
    verifyAuthChallenge(args.did, args.payload, args.signature,
        [expectedNonce |-> args.nonce, expectedAudience |-> args.audience,
         expectedDomain |-> args.domain], nanExpires)

authVerify(args, nanExpires) ==
    LET result == AuthVerifyStep(args, nanExpires)
        calls == <<"verifyAuthChallenge">>
        out == [format |-> IF args.json THEN "json" ELSE "text", data |-> result]
    IN
    IF args.json
    THEN IF ~result.valid
         THEN Exited(NoKeystore, calls \o <<"console.log">>, out, disk)
         ELSE Done(NoKeystore, calls \o <<"console.log">>, out, disk, keyCount, atCreation)
    ELSE IF result.valid
         THEN Done(NoKeystore, calls \o <<"console.log">>, out, disk, keyCount, atCreation)
         ELSE Exited(NoKeystore, calls \o <<"console.error">>, out, disk)

-----------------------------------------------------------------------------
(* The challenge commands as actions.  The caller keeps the result of the     *)
(* latest auth sign and presents it, as it is or altered, to auth verify.     *)

Challenges == {"abc123"}
ExpiresInArgs == {NULL, Some(<<"0">>), Some(<<"1">>), Some(<<"a", "b", "c">>)}
SignAudiences == {Some("srv")}
SignDomains == {NULL, Some("example.com")}
\* --did of auth sign: the stored identity, and one that is not stored
AuthDids == {publicKeyToDidKey(1), publicKeyToDidKey(2)}

\* --nonce, --audience, --domain of auth verify: none, the challenge alone, the
\* three values a challenge may have been signed for, another nonce, another
\* audience
Expectations ==
    { [nonce |-> NULL, audience |-> NULL, domain |-> NULL],
      [nonce |-> Some("abc123"), audience |-> NULL, domain |-> NULL],
      [nonce |-> Some("abc123"), audience |-> Some("srv"), domain |-> Some("example.com")],
      [nonce |-> Some("xyz"), audience |-> Some("srv"), domain |-> NULL],
      [nonce |-> Some("abc123"), audience |-> Some("other"), domain |-> NULL] }

\* The outcomes of comparing the clock with an exp that is not a number
NanOutcomes(encoded) ==
    IF \E p \in DecodePayload(encoded) : p.exp = NULL THEN BOOLEAN ELSE {TRUE}

\* What the caller presents of a result it holds: the result itself, the
\* payload rewritten for another nonce under the same signature, or a payload
\* cut short
Alterations == {"none", "nonce", "truncated"}
Present(result, how) ==
    LET payload == result.payloadEncoded.of IN
    [did |-> result.did,
     payload |-> IF how = "nonce" THEN Base64Url([payload EXCEPT !.nonce = "xyz"])
                 ELSE IF how = "truncated" THEN [enc |-> "truncated", of |-> payload]
                 ELSE result.payloadEncoded,
     signature |-> result.signature]

AuthSignCommand(args) ==
    LET run == authSign(args) IN
    /\ Invoke("auth sign", args, run)
    /\ response' = IF run.exit = 0
                   THEN Some([result |-> run.out.data, accepted |-> FALSE])
                   ELSE response
    /\ UNCHANGED <<envVars, now, inFlight, host>>

AuthVerifyCommand(how, expected, json, nanExpires) ==
    /\ response # NULL
    /\ LET args == With(With(Present(Get(response).result, how), expected),
                        [json |-> json])
           run == authVerify(args, nanExpires)
       IN
       /\ nanExpires \in NanOutcomes(args.payload)
       /\ Invoke("auth verify", args, run)
       /\ response' = {[h EXCEPT !.accepted = @ \/ (run.exit = 0 /\ how = "none")] :
                          h \in response}
    /\ UNCHANGED <<envVars, now, inFlight, host>>

\* The default store after create owner --name Alice on an empty store
StoreWithOwner ==
    [identities |-> <<[did |-> publicKeyToDidKey(1), type |-> "owner", name |-> "Alice",
                       createdAt |-> 0, ownerDid |-> NULL]>>,
     keys |-> {publicKeyToDidKey(1)},
     credentials |-> {}]

InitAuth ==
    /\ envPassphrase = "pw1"
    /\ envHome = NULL
    /\ instance = NULL
    /\ currentPath = NULL
    /\ currentEncryption = NULL
    /\ disk = [p \in StorePaths |-> IF p = DefaultStorePath THEN StoreWithOwner
                                     ELSE EmptyStore]
    /\ keyCount = 1
    /\ files = [f \in FilePaths |-> NULL]
    /\ now = 0
    /\ atCreation = {}
    /\ response = NULL
    /\ inFlight = NULL
    /\ host = Unloaded
    /\ last = Idle

NextAuth ==
    \/ \E c \in VcJsonArgs, d \in AuthDids, ch \in Challenges, a \in SignAudiences,
          dm \in SignDomains, e \in ExpiresInArgs :
         AuthSignCommand(With(c, [did |-> d, challenge |-> ch, audience |-> a,
                                  domain |-> dm, expiresIn |-> e]))
    \/ \E how \in Alterations, e \in Expectations, j \in BOOLEAN, x \in BOOLEAN :
         AuthVerifyCommand(how, e, j, x)
    \/ Tick

SpecAuth == InitAuth /\ [][NextAuth]_vars

-----------------------------------------------------------------------------
(* auth sign on a store with an owner and an agent, whose key files can go    *)
(* missing while their identity records stay                                  *)

\* --did of auth sign: the owner, the agent, and a DID that is not stored
SignDids == {publicKeyToDidKey(1), publicKeyToDidKey(2), publicKeyToDidKey(3)}

\* The default store after create owner --name Alice and create agent --name
\* Bot --owner <Alice>
StoreWithOwnerAndAgent ==
    [identities |-> <<[did |-> publicKeyToDidKey(1), type |-> "owner", name |-> "Alice",
                       createdAt |-> 0, ownerDid |-> NULL],
                      [did |-> publicKeyToDidKey(2), type |-> "agent", name |-> "Bot",
                       createdAt |-> 0, ownerDid |-> Some(publicKeyToDidKey(1))]>>,
     keys |-> {publicKeyToDidKey(1), publicKeyToDidKey(2)},
     credentials |-> {}]

\* The key file of an identity is removed from the keystore directory by
\* something other than the plugin
LoseKeyFile(did) ==
    /\ did \in disk[DefaultStorePath].keys
    /\ disk' = [disk EXCEPT ![DefaultStorePath].keys = @ \ {did}]
    /\ UNCHANGED <<envVars, ksVars, keyCount, files, now, atCreation, response,
                   inFlight, host, last>>

InitSign ==
    /\ envPassphrase = "pw1"
    /\ envHome = NULL
    /\ instance = NULL
    /\ currentPath = NULL
    /\ currentEncryption = NULL
    /\ disk = [p \in StorePaths |-> IF p = DefaultStorePath
                                     THEN StoreWithOwnerAndAgent ELSE EmptyStore]
    /\ keyCount = 2
    /\ files = [f \in FilePaths |-> NULL]
    /\ now = 0
    /\ atCreation = {[agent |-> publicKeyToDidKey(2),
                      ownerDid |-> publicKeyToDidKey(1), ownerWas |-> {"owner"}]}
    /\ response = NULL
    /\ inFlight = NULL
    /\ host = Unloaded
    /\ last = Idle

NextSign ==
    \/ \E c \in VcJsonArgs, d \in SignDids, ch \in Challenges, a \in SignAudiences :
         AuthSignCommand(With(c, [did |-> d, challenge |-> ch, audience |-> a,
                                  domain |-> NULL, expiresIn |-> NULL]))
    \/ \E d \in SignDids : LoseKeyFile(d)
    \/ Tick

SpecSign == InitSign /\ [][NextSign]_vars

-----------------------------------------------------------------------------
(* vc issue on that store, with and without --out, in both output modes *)

\* --scopes: a list the library accepts and one it refuses
IssueScopes == {<<"r">>, <<>>}

\* --out: absent, or the credential file
IssueOuts == {NULL} \cup {Some(f) : f \in FileArgs}

NextIssue ==
    \/ \E c \in VcJsonArgs, i \in SignDids, u \in VcSubjects, o \in IssueOuts :
         IssueOwnershipCommand(With(c, [issuer |-> i, subject |-> u, out |-> o]))
    \/ \E c \in VcJsonArgs, i \in SignDids, u \in VcSubjects, sc \in IssueScopes,
          o \in IssueOuts :
         IssueCapabilityCommand(With(c, [issuer |-> i, subject |-> u, scopes |-> sc,
                                         audience |-> NULL, expires |-> NULL, out |-> o]))
    \/ \E d \in SignDids : LoseKeyFile(d)
    \/ Tick

SpecIssue == InitSign /\ [][NextIssue]_vars

-----------------------------------------------------------------------------
(* The commands that work on what is already there: a credential file of any  *)
(* content and a store that holds credentials.                                *)

\* The tokens a file may hold: from either identity, without expiry or expired
\* at the start, signed by the key of the issuer or by another key
FileTokens ==
    { [payload |-> payload, sig |-> [by |-> by, over |-> payload]] :
        payload \in { [iss |-> i, sub |-> publicKeyToDidKey(2), iat |-> 0, exp |-> e,
                       vc |-> [type |-> "capability", hints |-> NULL,
                               scopes |-> <<<<"r">>>>, audience |-> NULL]] :
                        i \in VcIssuers, e \in ExpiresArgs \cup {NULL} },
        by \in {0, 1, 2} }

\* The tokens a JSON object may carry in its fields
JsonTokens ==
    {t \in FileTokens : t.payload.exp = NULL /\ t.sig.by = PublicKeyOf(t.payload.iss)}

\* A field of a JSON object: absent, or a token
JsonFields == {NULL} \cup {Some(t) : t \in JsonTokens}

\* What a file may hold: nothing, a token, a token cut short, or a JSON object
\* that may have a credential field and a jwt field (vc issue --json prints
\* { jwt } or { success, file })
FileContents ==
    {NULL}
    \cup {Some([kind |-> k, jwt |-> t]) : k \in {"jwt", "truncated"}, t \in FileTokens}
    \cup {Some([kind |-> "json", credential |-> c, jwt |-> j]) :
             c \in JsonFields, j \in JsonFields}

\* vc verify --subject: absent, the first identity or the second
ExpectedSubjects == {NULL, Some(publicKeyToDidKey(1)), Some(publicKeyToDidKey(2))}

\* The credentials a store may hold
StoredCredentials == {[id |-> "cred-1"], [id |-> "cred-2"]}

InitFiles ==
    /\ envPassphrase = "pw1"
    /\ envHome = NULL
    /\ instance = NULL
    /\ currentPath = NULL
    /\ currentEncryption = NULL
    /\ \E creds \in SUBSET StoredCredentials :
         disk = [p \in StorePaths |->
                    IF p = DefaultStorePath
                    THEN [StoreWithOwner EXCEPT !.credentials = creds]
                    ELSE EmptyStore]
    /\ keyCount = 1
    /\ files \in [FilePaths -> FileContents]
    /\ now = 0
    /\ atCreation = {}
    /\ response = NULL
    /\ inFlight = NULL
    /\ host = Unloaded
    /\ last = Idle

NextFiles ==
    \/ \E j \in BOOLEAN, f \in FileArgs, i \in ExpectedIssuers, u \in ExpectedSubjects :
         VcVerifyCommand([file |-> f, issuer |-> i, subject |-> u, json |-> j])
    \/ \E j \in BOOLEAN, f \in FileArgs : VcInspectCommand([file |-> f, json |-> j])
    \/ \E c \in VcJsonArgs, id \in {c.id : c \in StoredCredentials}, y \in BOOLEAN :
         VcDeleteCommand(With(c, [id |-> id, yes |-> y]))
    \/ Tick

SpecFiles == InitFiles /\ [][NextFiles]_vars

-----------------------------------------------------------------------------
(* vc issue capability on a store with one owner, for any --scopes *)

\* --scopes: "r, w", "", ",", "r,,w", "r, " and " "
ScopeInputs ==
    { <<"r", ",", " ", "w">>, <<>>, <<",">>, <<"r", ",", ",", "w">>,
      <<"r", ",", " ">>, <<" ">> }

OutArgs == {NULL} \cup {Some(f) : f \in FileArgs}

NextScopes ==
    \/ \E c \in VcJsonArgs, i \in VcIssuers, u \in VcSubjects, sc \in ScopeInputs,
          e \in ExpiresArgs \cup {NULL}, o \in OutArgs :
         IssueCapabilityCommand(With(c, [issuer |-> i, subject |-> u, scopes |-> sc,
                                         audience |-> NULL, expires |-> e, out |-> o]))
    \/ Tick

SpecScopes == InitAuth /\ [][NextScopes]_vars

-----------------------------------------------------------------------------
(* Claims about the KeystoreManager, checked under SpecKs *)

\* The position of the first occurrence of a call in a trace, 0 when absent
IndexOf(calls, c) ==
    IF \E i \in 1..Len(calls) : calls[i] = c
    THEN CHOOSE i \in 1..Len(calls) : calls[i] = c /\ \A j \in 1..(i - 1) : calls[j] # c
    ELSE 0

Called(calls, c) == IndexOf(calls, c) > 0

\* C1: with encryption requested and AGENT_DID_PASSPHRASE unset, getKeystore on a
\* cache miss and getNewKeystore fail with an error that normalizeError maps to
\* MISSING_PASSPHRASE; no Keystore is constructed and the cache keeps its fields.
C1_MissingPassphraseIsFatal ==
    [][\A c \in CustomPaths :
        ( /\ envPassphrase = Undefined
          /\ \/ CallGetKeystore(c, FALSE) /\ ~CacheHit(getStorePath(c), FALSE)
             \/ CallGetNewKeystore(c, FALSE) )
        => /\ last'.error # NULL
           /\ Get(last'.error).code = "MISSING_PASSPHRASE"
           /\ last'.exit = 1
           /\ last'.ks = NULL
           /\ ~Called(last'.calls, "new Keystore")
           /\ ksVars' = ksVars]_vars

C1_Witness ==
    /\ last.cmd = "getKeystore"
    /\ ~last.args.noEncryption
    /\ envPassphrase = Undefined
    /\ last.error # NULL
    /\ Get(last.error).code = "MISSING_PASSPHRASE"
    /\ instance # NULL

\* C2: a Keystore constructed without a passphrase was constructed by a call
\* that was given --no-encryption and that printed the unencrypted-keys warning
\* before constructing it.
C2_PlaintextOnlyByFlagWithWarning ==
    ( /\ last.cmd \in {"getKeystore", "getNewKeystore"}
      /\ Called(last.calls, "new Keystore")
      /\ Get(last.ks).passphrase = NoPassphrase )
    => /\ last.args.noEncryption
       /\ Called(last.calls, "warn")
       /\ IndexOf(last.calls, "warn") < IndexOf(last.calls, "new Keystore")

\* C7: a getKeystore call that returns hands out the cached instance only if
\* that instance was constructed for the resolved path and the mode of the call;
\* when the path or the mode differs from the cached key, it constructs a new
\* instance for the path and mode of the call and caches it in place of the old.
C7_CacheKeyedByPathAndMode ==
    [][\A c \in CustomPaths, n \in BOOLEAN :
        (CallGetKeystore(c, n) /\ last'.error = NULL)
        => LET rp == getStorePath(c) IN
           /\ last'.hit =>
                /\ last'.ks = instance
                /\ instance' = instance
                /\ Get(instance).path = rp
                /\ Get(instance).noEncryption = n
           /\ (currentPath # Some(rp) \/ currentEncryption # Some(~n)) =>
                /\ ~last'.hit
                /\ Called(last'.calls, "new Keystore")
                /\ last'.ks # instance
                /\ Get(last'.ks).path = rp
                /\ Get(last'.ks).noEncryption = n
                /\ instance' = last'.ks
                /\ currentPath' = Some(rp)
                /\ currentEncryption' = Some(~n)]_vars

\* a call for another mode on the cached path has replaced the instance
C7_Witness ==
    /\ last.cmd = "getKeystore"
    /\ last.error = NULL
    /\ ~last.hit
    /\ last.args.noEncryption
    /\ instance = last.ks
    /\ Get(instance).id # 1
    /\ currentEncryption = Some(FALSE)

\* C14: a getKeystore call without --no-encryption that constructs a Keystore
\* while AGENT_DID_PASSPHRASE is the empty string does what the call with
\* --no-encryption does: it gives the Keystore no passphrase, prints the
\* unencrypted-keys warning before constructing it, and leaves in the cache the
\* mode of --no-encryption, on which a later call with --no-encryption for the
\* same path hits.
C14_EmptyPassphraseIsNoEncryption ==
    [][\A c \in CustomPaths :
        ( /\ envPassphrase = ""
          /\ CallGetKeystore(c, FALSE)
          /\ ~CacheHit(getStorePath(c), FALSE) )
        => /\ last'.error = NULL
           /\ Get(last'.ks).passphrase = NoPassphrase
           /\ Called(last'.calls, "warn")
           /\ IndexOf(last'.calls, "warn") < IndexOf(last'.calls, "new Keystore")
           /\ currentPath' = Some(getStorePath(c))
           /\ currentEncryption' = Some(FALSE)]_vars

-----------------------------------------------------------------------------
(* Claims about the identity commands, checked under SpecId *)

\* The identity records a store holds
Records(store) == {store.identities[i] : i \in 1..Len(store.identities)}

\* The identity records the store at a path holds now
StoredAt(path) == Records(disk[path])

\* The identity records the store of the last command held when it started
StoredBefore == Records(last.before.disk[getStorePath(last.args.store)])

\* The last command got its keystore
Opened == last.ks # NULL

\* C3: create agent whose --owner is not in the store fails with the
\* owner-not-found error, and whose --owner is an agent fails with the
\* not-an-owner error; no key pair is generated, storeIdentity is not called
\* and the store is unchanged.
C3_CreateAgentRefusesBadOwner ==
    LET held == {i \in StoredBefore : i.did = last.args.owner} IN
    ( /\ last.cmd = "create agent"
      /\ Opened
      /\ \A i \in held : i.type = "agent" )
    => /\ last.exit = 1
       /\ last.error # NULL
       /\ held = {} =>
            /\ Get(last.error).message = MsgOwnerNotFound(last.args.owner)
            /\ Get(last.error).code = "NOT_FOUND"
       /\ held # {} =>
            Get(last.error).message = MsgNotAnOwner(last.args.owner)
       /\ ~Called(last.calls, "generateKeyPair")
       /\ ~Called(last.calls, "storeIdentity")
       /\ keyCount = last.before.keyCount
       /\ disk = last.before.disk

\* create agent was refused because its --owner is a stored agent
C3_Witness ==
    /\ last.cmd = "create agent"
    /\ last.exit = 1
    /\ last.error # NULL
    /\ Get(last.error).message = MsgNotAnOwner(last.args.owner)
    /\ \E i \in StoredBefore : i.did = last.args.owner /\ i.type = "agent"

\* C4: every agent in a store has an ownerDid that, when the agent was stored,
\* was the DID of a stored identity of type owner.
C4_OwnerValidAtCreation ==
    \A p \in StorePaths : \A a \in StoredAt(p) :
        a.type = "agent" =>
            /\ a.ownerDid # NULL
            /\ \E e \in atCreation :
                 /\ e.agent = a.did
                 /\ e.ownerDid = Get(a.ownerDid)
                 /\ e.ownerWas = {"owner"}

\* an agent is stored whose owner has since been deleted
C4_Witness ==
    \E p \in StorePaths : \E a \in StoredAt(p) :
        /\ a.type = "agent"
        /\ \A o \in StoredAt(p) : Some(o.did) # a.ownerDid

\* C8: delete of a DID that is not in the store fails with code NOT_FOUND
\* without calling deleteIdentity and leaves the store unchanged; delete of a
\* stored DID removes that identity and its key material and nothing else.
C8_DeleteExactlyOne ==
    LET p == getStorePath(last.args.store)
        held == {i \in StoredBefore : i.did = last.args.did}
    IN
    (last.cmd = "delete" /\ Opened)
    => /\ held = {} =>
            /\ last.exit = 1
            /\ last.error # NULL
            /\ Get(last.error).code = "NOT_FOUND"
            /\ ~Called(last.calls, "deleteIdentity")
            /\ disk = last.before.disk
       /\ held # {} =>
            /\ last.exit = 0
            /\ Called(last.calls, "deleteIdentity")
            /\ StoredAt(p) = StoredBefore \ held
            /\ Len(disk[p].identities) = Len(last.before.disk[p].identities) - 1
            /\ disk[p].keys = last.before.disk[p].keys \ {last.args.did}
            /\ \A q \in StorePaths \ {p} : disk[q] = last.before.disk[q]

\* a delete succeeded and left another identity in the same store
C8_Witness ==
    /\ last.cmd = "delete"
    /\ last.exit = 0
    /\ StoredAt(getStorePath(last.args.store)) # {}

\* The agents among some records whose owner is not among them
Dangling(records) ==
    {a \in records : a.type = "agent" /\ \A o \in records : Some(o.did) # a.ownerDid}

\* C9: deleting an owner leaves every agent that points to it in the store
\* with its record unchanged, and list and inspect succeed on agents whose
\* owner is gone and print the ownerDid.
C9_DeleteDoesNotCascade ==
    /\ (last.cmd = "delete" /\ last.exit = 0) =>
          \A q \in StorePaths : \A a \in Records(last.before.disk[q]) :
              a.ownerDid = Some(last.args.did) =>
                  /\ a \in StoredAt(q)
                  /\ a.did \in disk[q].keys
    /\ (last.cmd = "inspect" /\ Opened) =>
          \A a \in Dangling(StoredBefore) :
              a.did = last.args.did =>
                  /\ last.exit = 0
                  /\ last.out.data.did = a.did
                  /\ last.out.data.ownerDid = a.ownerDid
    /\ (last.cmd = "list" /\ Opened) =>
          /\ last.exit = 0
          /\ \A a \in Dangling(StoredBefore) :
                \E i \in 1..Len(last.out.data) :
                    IF last.args.json
                    THEN last.out.data[i] = a
                    ELSE /\ last.out.data[i].did = a.did
                         /\ last.out.data[i].owner = a.ownerDid

\* inspect printed an agent whose owner has been deleted
C9_Witness ==
    /\ last.cmd = "inspect"
    /\ last.exit = 0
    /\ \E a \in Dangling(StoredBefore) :
         /\ a.did = last.args.did
         /\ last.out.data.ownerDid = a.ownerDid

-----------------------------------------------------------------------------
(* Claims about the credential commands, checked under SpecVc *)

IssueCommands == {"vc issue ownership", "vc issue capability"}

\* C5: vc issue ownership and vc issue capability whose --issuer is absent
\* from the store, or is an agent there, fail without calling signCredential
\* and write no file; a command that called signCredential had an --issuer that
\* was an owner in the store when it started, and the token it wrote names that
\* issuer and carries its signature.
C5_OnlyStoredOwnersIssue ==
    LET held == {i \in StoredBefore : i.did = last.args.issuer} IN
    (last.cmd \in IssueCommands /\ Opened)
    => /\ (\A i \in held : i.type = "agent") =>
            /\ last.exit = 1
            /\ last.error # NULL
            /\ Get(last.error).message =
                 IF held = {} THEN MsgIssuerNotFound(last.args.issuer)
                 ELSE MsgIssuerMustBeOwner(last.args.issuer)
            /\ ~Called(last.calls, "signCredential")
            /\ files = last.before.files
            /\ disk = last.before.disk
       /\ Called(last.calls, "signCredential") =>
            /\ \E i \in held : i.type = "owner"
            /\ last.exit = 0
            /\ LET written == files[PathResolve(Get(last.args.out))] IN
               /\ written # NULL
               /\ Get(written).jwt.payload.iss = last.args.issuer
               /\ Get(written).jwt.sig.by = PublicKeyOf(last.args.issuer)

\* an issue command was refused because its --issuer is a stored agent
C5_Witness ==
    /\ last.cmd \in IssueCommands
    /\ last.exit = 1
    /\ last.error # NULL
    /\ Get(last.error).message = MsgIssuerMustBeOwner(last.args.issuer)
    /\ \E i \in StoredBefore : i.did = last.args.issuer /\ i.type = "agent"

\* The last command failed: it threw, or it verified a token as not valid, or
\* it was to delete a credential that is not stored
Failed ==
    \/ last.error # NULL
    \/ /\ last.error = NULL
       /\ last.cmd = "vc verify"
       /\ ~last.out.data.valid
    \/ /\ last.error = NULL
       /\ last.cmd = "vc delete"
       /\ ~last.out.data.deleted

\* C6: a command exits with 1 when it failed and with 0 when it did not,
\* whether or not --json was given.
C6_ExitOneExactlyOnFailure ==
    (last.cmd # "none") => (last.exit = 1 <=> Failed)

\* C13: the error a command fails with has, after normalizeError, a code that
\* is defined.
C13_EveryFailureHasACode ==
    \A e \in last.error : e.kind = "AgentDidError" /\ e.code # Undefined

\* The token in the file the last vc verify was given, when it started
VerifiedFile == last.before.files[PathResolve(last.args.file)]

\* A token whose signature was made over its payload by the key its issuer names
WellSigned(jwt) == jwt.sig.by = PublicKeyOf(jwt.payload.iss) /\ jwt.sig.over = jwt.payload

\* The token is not past its expiry at a time, and meets the expectations given
Acceptable(jwt, args, time) ==
    /\ \A e \in jwt.payload.exp : time <= e
    /\ \A i \in args.issuer : jwt.payload.iss = i
    /\ \A u \in args.subject : jwt.payload.sub = u

\* C10: vc verify obtains no keystore and changes no store; on a file that
\* holds a token its result is valid exactly when the token is well signed,
\* unexpired at the time of the call and meets the --issuer and --subject
\* given, whatever identities the stores hold, and a valid result carries the
\* payload of the token.
C10_VerifyIsSelfContained ==
    (last.cmd = "vc verify")
    => /\ last.ks = NULL
       /\ ~Called(last.calls, "getKeystore")
       /\ ~Called(last.calls, "new Keystore")
       /\ ~Called(last.calls, "init")
       /\ disk = last.before.disk
       /\ files = last.before.files
       /\ (VerifiedFile = NULL) <=> (last.error # NULL)
       /\ \A content \in VerifiedFile :
            LET jwt == content.jwt
                ok == WellSigned(jwt) /\ Acceptable(jwt, last.args, last.before.now)
            IN
            /\ last.out.data.valid = ok
            /\ ok => last.out.data.payload = Some(jwt.payload)

\* a token verified as valid although no store holds its issuer any more
C10_Witness ==
    /\ last.cmd = "vc verify"
    /\ last.error = NULL
    /\ last.out.data.valid
    /\ \E p \in last.out.data.payload :
         \A q \in StorePaths : \A i \in StoredAt(q) : i.did # p.iss /\ i.did # p.sub

\* The agents that were created with an owner, as pairs of owner and agent
CreatedFor == {<<e.ownerDid, e.agent>> : e \in {x \in atCreation : x.ownerWas = {"owner"}}}

\* C20: vc issue ownership by a stored owner for an agent that was created with
\* that owner writes a token that names the owner as iss and the agent as sub
\* and is signed by the owner's key; vc verify of a file that holds such a
\* token, with no --issuer or the owner's DID as --issuer, is valid with that
\* iss and sub in its payload and exits with 0.
C20_OwnershipVerifies ==
    /\ ( /\ last.cmd = "vc issue ownership"
         /\ last.exit = 0
         /\ <<last.args.issuer, last.args.subject>> \in CreatedFor )
       => \E c \in files[PathResolve(Get(last.args.out))] :
             /\ c.kind = "jwt"
             /\ c.jwt.payload.iss = last.args.issuer
             /\ c.jwt.payload.sub = last.args.subject
             /\ c.jwt.payload.exp = NULL
             /\ WellSigned(c.jwt)
    /\ (last.cmd = "vc verify") =>
          \A c \in VerifiedFile :
             ( /\ c.kind = "jwt"
               /\ c.jwt.payload.vc.type = "ownership"
               /\ <<c.jwt.payload.iss, c.jwt.payload.sub>> \in CreatedFor
               /\ WellSigned(c.jwt)
               /\ last.args.issuer \in {NULL, Some(c.jwt.payload.iss)}
               /\ last.args.subject \in {NULL, Some(c.jwt.payload.sub)} )
             => /\ last.error = NULL
                /\ last.out.data.valid
                /\ \E p \in last.out.data.payload :
                      p.iss = c.jwt.payload.iss /\ p.sub = c.jwt.payload.sub
                /\ last.exit = 0

\* the ownership credential of an agent, issued by the owner it was created
\* with, was verified as valid with the owner as the expected issuer
C20_Witness ==
    /\ last.cmd = "vc verify"
    /\ last.error = NULL
    /\ last.out.data.valid
    /\ last.args.issuer # NULL
    /\ \E c \in VerifiedFile :
         /\ c.jwt.payload.vc.type = "ownership"
         /\ <<c.jwt.payload.iss, c.jwt.payload.sub>> \in CreatedFor
         /\ last.args.issuer = Some(c.jwt.payload.iss)

-----------------------------------------------------------------------------
(* Claims about the challenge commands, checked under SpecAuth *)

\* The last auth verify was given the did, payload and signature of the result
\* the caller held, unaltered
Genuine ==
    \E h \in last.before.response :
        /\ last.args.did = h.result.did
        /\ last.args.payload = h.result.payloadEncoded
        /\ last.args.signature = h.result.signature

\* The payload the last auth verify was given
Presented == last.args.payload.of

\* The instant of the last command lies in the window of a payload
InWindow(payload) ==
    \E exp \in payload.exp : payload.iat <= last.before.now /\ last.before.now <= exp

\* The reasons for which the expectations of the last auth verify fail on a payload
Mismatches(payload) ==
    {r \in {"NonceMismatch", "AudienceMismatch", "DomainMismatch"} :
        \/ r = "NonceMismatch" /\ \E n \in last.args.nonce : n # payload.nonce
        \/ r = "AudienceMismatch" /\ \E a \in last.args.audience : Some(a) # payload.aud
        \/ r = "DomainMismatch" /\ \E d \in last.args.domain : Some(d) # payload.domain}

\* C11: auth sign returns a payload for the DID, challenge, audience and domain
\* it was given, signed by the key of the DID; auth verify of that result, with
\* an exp that is a number, is valid with exit code 0 when the instant is in
\* [iat, exp] and every expectation supplied equals the signed value, is not
\* valid with the reason of a differing expectation when one differs inside the
\* window, and is not valid with reason Expired outside the window.
C11_ChallengeRoundTrip ==
    /\ (last.cmd = "auth sign" /\ last.exit = 0) =>
          LET result == last.out.data
              payload == result.payloadEncoded.of
          IN
          /\ result.payloadEncoded.enc = "base64url"
          /\ result.did = last.args.did
          /\ payload.did = last.args.did
          /\ payload.nonce = last.args.challenge
          /\ payload.aud = last.args.audience
          /\ payload.domain = last.args.domain
          /\ payload.iat = last.before.now
          /\ result.signature.by = PublicKeyOf(last.args.did)
          /\ result.signature.over = result.payloadEncoded
          /\ response = Some([result |-> result, accepted |-> FALSE])
    /\ (last.cmd = "auth verify" /\ Genuine /\ Presented.exp # NULL) =>
          LET result == last.out.data IN
          /\ (InWindow(Presented) /\ Mismatches(Presented) = {}) =>
                /\ result.valid
                /\ result.payload = Some(Presented)
                /\ last.exit = 0
          /\ (InWindow(Presented) /\ Mismatches(Presented) # {}) =>
                /\ ~result.valid
                /\ result.reason # NULL
                /\ Get(result.reason) \in Mismatches(Presented)
                /\ last.exit = 1
          /\ ~InWindow(Presented) =>
                /\ ~result.valid
                /\ result.reason = Some("Expired")
                /\ last.exit = 1

\* The number of seconds an --expires-in option names, 120 when the option is
\* not given, and none when the option is not a number of seconds
SecondsGiven(option) ==
    IF option = NULL THEN Some(120)
    ELSE LET str == Get(option) IN
         IF str # <<>> /\ \A i \in 1..Len(str) : IsDigit(str[i]) THEN ParseInt(str) ELSE NULL

\* C15: the payload auth sign returns has an exp that is a number, the sum of
\* its iat and the number of seconds of --expires-in, 120 when the option is
\* not given.
C15_ExpIsIatPlusExpiresIn ==
    (last.cmd = "auth sign" /\ last.exit = 0)
    => LET payload == last.out.data.payloadEncoded.of
           seconds == SecondsGiven(last.args.expiresIn)
       IN  /\ seconds # NULL
           /\ payload.exp = Some(payload.iat + Get(seconds))
           /\ last.out.data.expiresAt = payload.exp

\* a challenge signed for an audience and a domain was verified as valid, with
\* the nonce, audience and domain expected, at an instant after it was signed
C11_Witness ==
    /\ last.cmd = "auth verify"
    /\ Genuine
    /\ last.out.data.valid
    /\ last.args.nonce = Some(Presented.nonce)
    /\ last.args.audience = Presented.aud
    /\ last.args.domain # NULL
    /\ last.before.now > Presented.iat

\* The caller had presented the result it holds before, and it was accepted
AcceptedBefore == \E h \in last.before.response : h.accepted

\* C19: auth sign and auth verify change no store and no file, and auth verify
\* obtains no keystore; auth verify of a result of auth sign inside [iat, exp]
\* with expectations that match is valid also when the same result was
\* accepted by an earlier auth verify.
C19_VerifyKeepsNoState ==
    /\ (last.cmd \in {"auth sign", "auth verify"}) =>
          /\ disk = last.before.disk
          /\ files = last.before.files
          /\ keyCount = last.before.keyCount
    /\ (last.cmd = "auth verify") =>
          /\ last.ks = NULL
          /\ last.calls \in {<<"verifyAuthChallenge", "console.log">>,
                             <<"verifyAuthChallenge", "console.log", "process.exit">>,
                             <<"verifyAuthChallenge", "console.error", "process.exit">>}
          /\ ( /\ Genuine
               /\ AcceptedBefore
               /\ InWindow(Presented)
               /\ Mismatches(Presented) = {} )
             => /\ last.out.data.valid
                /\ last.out.data.payload = Some(Presented)
                /\ last.exit = 0

\* a result that an auth verify had accepted was accepted again, for the same
\* nonce
C19_Witness ==
    /\ last.cmd = "auth verify"
    /\ Genuine
    /\ AcceptedBefore
    /\ last.args.nonce = Some(Presented.nonce)
    /\ last.out.data.valid
    /\ last.exit = 0

-----------------------------------------------------------------------------
(* Claims about verification and stored credentials, checked under SpecFiles *)

\* The stages of verification that fail for a file content under the
\* expectations and at the instant of the last vc verify, as their reasons
FailingStages(content) ==
    IF content.kind = "json" THEN {"MalformedToken"}
    ELSE
    LET payload == content.jwt.payload IN
    {r \in {"MalformedToken", "InvalidSignature", "Expired", "IssuerNotAllowed",
            "SubjectMismatch"} :
        \/ r = "MalformedToken" /\ content.kind # "jwt"
        \/ r = "InvalidSignature" /\ ~WellSigned(content.jwt)
        \/ r = "Expired" /\ \E e \in payload.exp : last.before.now > e
        \/ r = "IssuerNotAllowed" /\ \E i \in last.args.issuer : payload.iss # i
        \/ r = "SubjectMismatch" /\ \E u \in last.args.subject : payload.sub # u}

StageOrder ==
    <<"MalformedToken", "InvalidSignature", "Expired", "IssuerNotAllowed", "SubjectMismatch">>

\* The first reason in the order of the stages that is among some reasons
FirstOf(reasons) ==
    StageOrder[CHOOSE i \in 1..Len(StageOrder) :
                  /\ StageOrder[i] \in reasons
                  /\ \A j \in 1..(i - 1) : StageOrder[j] \notin reasons]

\* C12: vc verify of a file reports valid exactly when none of the five stages
\* decode, signature, expiry, allowed issuer, expected subject fails, and
\* otherwise reports the reason of the first stage, in that order, that fails.
C12_FirstFailingStage ==
    (last.cmd = "vc verify" /\ last.error = NULL)
    => \A content \in VerifiedFile :
          LET result == last.out.data IN
          /\ result.valid <=> (FailingStages(content) = {})
          /\ ~result.valid => result.reason = FirstOf(FailingStages(content))

\* a well-signed token that is expired and from an issuer that is not allowed
\* was reported Expired
C12_Witness ==
    /\ last.cmd = "vc verify"
    /\ last.error = NULL
    /\ ~last.out.data.valid
    /\ last.out.data.reason = "Expired"
    /\ \E content \in VerifiedFile :
         {"Expired", "IssuerNotAllowed"} \subseteq FailingStages(content)

\* C16: vc delete without --yes fails with the confirmation error, obtains no
\* keystore and leaves every store as it was; vc delete with --yes that obtains
\* its keystore removes from that store the credential with the given id and
\* nothing else: the other credentials, the identities and their keys, and the
\* other stores are as they were.
C16_DeleteNeedsConfirmation ==
    (last.cmd = "vc delete")
    => /\ ~last.args.yes =>
            /\ last.exit = 1
            /\ last.error # NULL
            /\ Get(last.error).message = MsgRequiresYes
            /\ last.ks = NULL
            /\ ~Called(last.calls, "new Keystore")
            /\ ~Called(last.calls, "deleteCredential")
            /\ disk = last.before.disk
       /\ (last.args.yes /\ Opened) =>
            LET p == getStorePath(last.args.store)
                was == last.before.disk[p]
            IN
            /\ Called(last.calls, "deleteCredential")
            /\ disk[p].credentials = {c \in was.credentials : c.id # last.args.id}
            /\ disk[p].identities = was.identities
            /\ disk[p].keys = was.keys
            /\ \A q \in StorePaths \ {p} : disk[q] = last.before.disk[q]
            /\ last.out.data.deleted <=> \E c \in was.credentials : c.id = last.args.id

\* a confirmed vc delete removed a credential and left another in the store
C16_Witness ==
    /\ last.cmd = "vc delete"
    /\ last.args.yes
    /\ last.exit = 0
    /\ last.out.data.deleted
    /\ disk[getStorePath(last.args.store)].credentials # {}
    /\ disk # last.before.disk

\* What vc inspect is to print for a file content: the header and the payload
\* of the token in it, if it holds one
Inspected(fileContent) ==
    {[header |-> JwtHeader, payload |-> c.jwt.payload] :
        c \in {x \in fileContent : x.kind = "jwt"}}
    \cup {[header |-> JwtHeader, payload |-> t.payload] :
            t \in UNION {IF x.credential # NULL THEN x.credential ELSE x.jwt :
                            x \in {y \in fileContent : y.kind = "json"}}}

\* C18: vc inspect obtains no keystore and changes no store and no file; it
\* prints the header and payload of the token in the file whatever the
\* signature and the expiry of the token, and fails on a file that holds no
\* token; an inspection that follows an inspection of the same file ends with
\* the same exit code and prints the same header and payload.
C18_InspectIsReadOnlyAndRepeatable ==
    [][(last'.cmd = "vc inspect")
       => LET content == files[PathResolve(last'.args.file)] IN
          /\ last'.ks = NULL
          /\ ~Called(last'.calls, "new Keystore")
          /\ ~Called(last'.calls, "init")
          /\ disk' = last'.before.disk
          /\ files' = last'.before.files
          /\ last'.before.files = files
          /\ (Inspected(content) = {}) <=> (last'.error # NULL)
          /\ (Inspected(content) = {}) <=> (last'.exit = 1)
          /\ \A d \in Inspected(content) : last'.out.data = d
          /\ (last.cmd = "vc inspect" /\ last.args.file = last'.args.file) =>
                /\ last'.exit = last.exit
                /\ last'.error = last.error
                /\ last.error = NULL => last'.out.data = last.out.data]_vars

\* a token that is expired and not signed by its issuer was inspected, after
\* the instant of its expiry
C18_Witness ==
    /\ last.cmd = "vc inspect"
    /\ last.exit = 0
    /\ \E c \in files[PathResolve(last.args.file)] :
         /\ c.kind = "jwt"
         /\ c.jwt.sig.by # PublicKeyOf(c.jwt.payload.iss)
         /\ \E e \in c.jwt.payload.exp : last.before.now > e
         /\ last.out.data.payload = c.jwt.payload

-----------------------------------------------------------------------------
(* Claims about the scopes of a capability, checked under SpecScopes *)

\* The positions that bound the entries of a comma-separated string
EntryEnds(str) == {0, Len(str) + 1} \cup {k \in 1..Len(str) : str[k] = ","}

\* A comma-separated string has an entry that is empty or only spaces
HasEmptyEntry(str) ==
    \E a \in EntryEnds(str), b \in EntryEnds(str) :
        /\ a < b
        /\ \A k \in (a + 1)..(b - 1) : str[k] = " "

\* C17: vc issue capability whose --scopes has an entry that is empty after
\* trimming (the empty string and a lone comma included) fails, signs nothing
\* and writes no file; when its issuer is a stored owner it fails with
\* InvalidScopes.
C17_EmptyScopesRefused ==
    ( /\ last.cmd = "vc issue capability"
      /\ Opened
      /\ HasEmptyEntry(last.args.scopes) )
    => /\ last.exit = 1
       /\ last.error # NULL
       /\ ~Called(last.calls, "signCredential")
       /\ files = last.before.files
       /\ (\E i \in StoredBefore : i.did = last.args.issuer /\ i.type = "owner") =>
             /\ Get(last.error).message = MsgInvalidScopes
             /\ Called(last.calls, "createCapabilityCredential")

\* a stored owner was refused a capability for the scopes "r,,w"
C17_Witness ==
    /\ last.cmd = "vc issue capability"
    /\ last.args.scopes = <<"r", ",", ",", "w">>
    /\ last.exit = 1
    /\ last.error # NULL
    /\ Get(last.error).message = MsgInvalidScopes
    /\ \E i \in StoredBefore : i.did = last.args.issuer /\ i.type = "owner"

-----------------------------------------------------------------------------
(* Claims on SpecKs: the cache of KeystoreManager *)

\* The step is a call of the named accessor (the environment is left alone,
\* and the record of the call is the one of that accessor)
StepOf(accessor) ==
    /\ last'.cmd = accessor
    /\ envPassphrase' = envPassphrase
    /\ envHome' = envHome

\* The cache holds an instance for the path and mode of the call being made
CachedForCall ==
    /\ instance # NULL
    /\ currentPath = Some(getStorePath(last'.args.store))
    /\ currentEncryption = Some(~last'.args.noEncryption)

\* C24: a getKeystore call for the cached path and mode returns the cached
\* instance without reading the passphrase: it succeeds whatever
\* AGENT_DID_PASSPHRASE has become, returns the instance with the passphrase it
\* was built with, and leaves the cache as it was.
C24_HitDoesNotRereadPassphrase ==
    [][ (StepOf("getKeystore") /\ CachedForCall) =>
          /\ last'.error = NULL
          /\ last'.hit
          /\ last'.ks = instance
          /\ ~Called(last'.calls, "getPassphrase")
          /\ ~Called(last'.calls, "new Keystore")
          /\ instance' = instance
          /\ Get(instance').passphrase = Get(instance).passphrase
          /\ currentPath' = currentPath
          /\ currentEncryption' = currentEncryption ]_vars

\* an encrypted-mode call hit the cache after AGENT_DID_PASSPHRASE was unset:
\* the instance returned still has the passphrase it was built with
C24_Witness ==
    /\ last.cmd = "getKeystore"
    /\ last.hit
    /\ ~last.args.noEncryption
    /\ last.ks = instance
    /\ envPassphrase = Undefined
    /\ Get(instance).passphrase = "pw1"

\* C25: the three static fields are set and unset together, and when set
\* currentPath is the path of the cached instance and currentEncryption is
\* the negation of the noEncryption flag of the call that constructed it.
C25_CacheFieldsMoveTogether ==
    /\ (instance = NULL) = (currentPath = NULL)
    /\ (instance = NULL) = (currentEncryption = NULL)
    /\ instance # NULL =>
          /\ currentPath = Some(Get(instance).path)
          /\ currentEncryption = Some(~Get(instance).noEncryption)
          /\ Get(instance).skipValidation

\* the cache holds an instance constructed with --no-encryption
C25_Witness ==
    /\ instance # NULL
    /\ Get(instance).noEncryption
    /\ currentEncryption = Some(FALSE)
    /\ currentPath = Some(<<"/", "w", "s1">>)

\* C26: a getKeystore call that fails (a miss with no passphrase available)
\* constructs nothing and leaves the three static fields as they were, so
\* every call that was a hit before it is a hit after it.
C26_FailedMissLeavesCache ==
    [][ (StepOf("getKeystore") /\ last'.error # NULL) =>
          /\ ~CachedForCall
          /\ ~last'.hit
          /\ last'.ks = NULL
          /\ ~Called(last'.calls, "new Keystore")
          /\ instance' = instance
          /\ currentPath' = currentPath
          /\ currentEncryption' = currentEncryption
          /\ \A c \in CustomPaths, n \in BOOLEAN :
                getKeystore(c, n).hit => getKeystore(c, n).hit' ]_vars

\* a call failed for want of a passphrase while the cache held an instance,
\* and the cache still holds it
C26_Witness ==
    /\ last.cmd = "getKeystore"
    /\ last.error # NULL
    /\ Get(last.error).code = "MISSING_PASSPHRASE"
    /\ instance # NULL
    /\ currentPath # Some(getStorePath(last.args.store))
    /\ currentEncryption = Some(TRUE)

\* C27: getNewKeystore neither consults nor changes the cache: every call
\* reads the passphrase, a successful call constructs a Keystore that is not
\* the cached one, with the passphrase as it is now and with validation, and
\* the three static fields are left as they were.
C27_NewKeystoreBypassesCache ==
    [][ StepOf("getNewKeystore") =>
          /\ ~last'.hit
          /\ Called(last'.calls, "getPassphrase")
          /\ instance' = instance
          /\ currentPath' = currentPath
          /\ currentEncryption' = currentEncryption
          /\ last'.error = NULL =>
                /\ Called(last'.calls, "new Keystore")
                /\ last'.ks # NULL
                /\ last'.ks # instance
                /\ ~Get(last'.ks).skipValidation
                /\ Get(last'.ks).path = getStorePath(last'.args.store)
                /\ Get(last'.ks).passphrase =
                      (IF last'.args.noEncryption \/ envPassphrase = ""
                       THEN NoPassphrase ELSE envPassphrase) ]_vars

\* getNewKeystore was called for the cached path and mode after the passphrase
\* changed: it built a second Keystore with the new passphrase and the cache
\* kept the first
C27_Witness ==
    /\ last.cmd = "getNewKeystore"
    /\ last.error = NULL
    /\ instance # NULL
    /\ last.ks # instance
    /\ currentPath = Some(Get(last.ks).path)
    /\ currentEncryption = Some(TRUE)
    /\ ~last.args.noEncryption
    /\ Get(instance).passphrase = "pw1"
    /\ Get(last.ks).passphrase = "pw2"

-----------------------------------------------------------------------------
(* Claims on SpecId: what the create commands print *)

\* The identity record the last create command added to its store
Created ==
    {i \in StoredAt(getStorePath(last.args.store)) : i \notin StoredBefore}

\* C21: a create owner or create agent that succeeds prints exactly the fields
\* did, kid, name, type and createdAt (and ownerDid for an agent), each with the
\* value of the stored public metadata, in JSON and in table mode alike; no
\* field holds the private key, and the lines after the table are fixed text.
C21_CreatePrintsPublicMetadataOnly ==
    ( /\ last.cmd \in {"create owner", "create agent"}
      /\ last.exit = 0 )
    => /\ last.out.format = (IF last.args.json THEN "json" ELSE "table")
       /\ DOMAIN last.out.data =
             {"did", "kid", "name", "type", "createdAt"}
                \cup (IF last.cmd = "create agent" THEN {"ownerDid"} ELSE {})
       /\ \E i \in Created :
             /\ Created = {i}
             /\ last.out.data.did = i.did
             /\ last.out.data.kid = Kid(i.did)
             /\ last.out.data.name = last.args.name
             /\ last.out.data.name = i.name
             /\ last.out.data.type = i.type
             /\ last.out.data.type =
                   (IF last.cmd = "create agent" THEN "agent" ELSE "owner")
             /\ last.out.data.createdAt = i.createdAt
             /\ last.cmd = "create agent" =>
                   /\ last.out.data.ownerDid = last.args.owner
                   /\ i.ownerDid = Some(last.out.data.ownerDid)
       /\ \A k \in 1..Len(last.out.notes) :
             last.out.notes[k] \in {"Owner identity created successfully",
                                   "Agent identity created successfully",
                                   "IMPORTANT"}
       /\ last.args.json => last.out.notes = <<>>

\* an agent was created in JSON mode for an owner the store holds
C21_Witness ==
    /\ last.cmd = "create agent"
    /\ last.exit = 0
    /\ last.args.json
    /\ "ownerDid" \in DOMAIN last.out.data
    /\ \E i \in StoredBefore : i.type = "owner" /\ i.did = last.args.owner

-----------------------------------------------------------------------------
(* Claims on SpecSign *)

\* The store of the last command, as the command found it
StoreBefore == last.before.disk[getStorePath(last.args.store)]

\* C28: auth sign calls signAuthChallenge exactly when the store holds both
\* the identity record and the key pair of --did, whether the identity is an
\* owner or an agent; when the record is missing it fails with "Identity not
\* found", when only the key pair is missing with "Private key not found",
\* both with code NOT_FOUND and exit 1, and nothing is signed or printed.
C28_SignsOnlyWithRecordAndKey ==
    LET hasRecord == \E i \in Records(StoreBefore) : i.did = last.args.did
        hasKey == last.args.did \in StoreBefore.keys
    IN
    ( /\ last.cmd = "auth sign"
      /\ Opened )
    => /\ Called(last.calls, "signAuthChallenge") = (hasRecord /\ hasKey)
       /\ (hasRecord /\ hasKey) =>
             /\ last.exit = 0
             /\ last.error = NULL
             /\ last.out.data.did = last.args.did
       /\ ~(hasRecord /\ hasKey) =>
             /\ last.exit = 1
             /\ last.out = NULL
             /\ last.error # NULL
             /\ Get(last.error).code = "NOT_FOUND"
             /\ Get(last.error).message =
                   (IF ~hasRecord THEN MsgIdentityNotFound(last.args.did)
                    ELSE MsgPrivateKeyNotFound(last.args.did))
             /\ response = last.before.response

\* the owner has signed a challenge, and the agent, whose record is stored
\* but whose key file is gone, was then refused
C28_Witness ==
    /\ last.cmd = "auth sign"
    /\ last.exit = 1
    /\ last.error # NULL
    /\ Get(last.error).message = MsgPrivateKeyNotFound(last.args.did)
    /\ \E i \in Records(StoreBefore) : i.did = last.args.did /\ i.type = "agent"
    /\ response # NULL
    /\ Get(response).result.did = publicKeyToDidKey(1)

-----------------------------------------------------------------------------
(* Claims on SpecIssue *)

\* The files whose content the last command changed
FilesChanged == {f \in DOMAIN files : files[f] # last.before.files[f]}

\* C29: vc issue ownership and vc issue capability write the --out file only
\* after signCredential has returned: a command that fails (issuer missing,
\* issuer not an owner, key pair missing, credential refused) calls neither
\* writeFileSync nor console.log, prints nothing and leaves every file as it
\* was; a command that changes a file has signed, changes the --out file only,
\* and leaves the signed token in it.
C29_OutWrittenOnlyAfterSigning ==
    last.cmd \in IssueCommands
    => /\ last.exit # 0 =>
             /\ last.error # NULL
             /\ files = last.before.files
             /\ last.out = NULL
             /\ ~Called(last.calls, "writeFileSync")
             /\ ~Called(last.calls, "console.log")
             /\ ~Called(last.calls, "signCredential")
       /\ Called(last.calls, "writeFileSync") =>
             /\ last.exit = 0
             /\ Truthy(last.args.out)
             /\ IndexOf(last.calls, "signCredential")
                   < IndexOf(last.calls, "writeFileSync")
             /\ LET content == files[PathResolve(Get(last.args.out))] IN
                /\ content # NULL
                /\ Get(content).kind = "jwt"
                /\ Get(content).jwt.payload.iss = last.args.issuer
                /\ Get(content).jwt.sig.by = PublicKeyOf(last.args.issuer)
       /\ \A f \in FilesChanged :
             /\ last.exit = 0
             /\ Truthy(last.args.out)
             /\ f = PathResolve(Get(last.args.out))
       /\ (last.exit = 0 /\ ~Truthy(last.args.out)) => files = last.before.files

\* the owner's key file went missing after a token had been written to the
\* --out file; the next vc issue to that file failed and the file still holds
\* the earlier token
C29_Witness ==
    /\ last.cmd \in IssueCommands
    /\ last.exit = 1
    /\ last.error # NULL
    /\ Get(last.error).message = MsgPrivateKeyNotFound(last.args.issuer)
    /\ Truthy(last.args.out)
    /\ files[PathResolve(Get(last.args.out))] # NULL
    /\ Get(files[PathResolve(Get(last.args.out))]).kind = "jwt"

-----------------------------------------------------------------------------
(* Claims on SpecRace *)

\* The store of the invocation in flight holds its owner
OwnerStillStored ==
    \E i \in StoredAt(getStorePath(Get(inFlight).args.store)) :
        i.did = Get(inFlight).args.owner /\ i.type = "owner"

\* C22: no lock is taken: a create agent that has passed its owner check
\* stores its agent whatever a delete has done to the owner in the meantime.
\* The step that finishes the invocation always succeeds, adds one agent with
\* the --owner it was given, and does not look the owner up again.
C22_StoreAfterCheckIgnoresDelete ==
    [][ (inFlight # NULL /\ inFlight' = NULL) =>
          LET args == Get(inFlight).args
              path == getStorePath(args.store)
              added == {i \in Records(disk'[path]) : i \notin Records(disk[path])}
          IN /\ last'.cmd = "create agent"
             /\ last'.exit = 0
             /\ last'.args = args
             /\ keyCount' = keyCount + 1
             /\ \E i \in added :
                   /\ added = {i}
                   /\ i.type = "agent"
                   /\ i.ownerDid = Some(args.owner)
             /\ Records(disk[path]) \subseteq Records(disk'[path])
             /\ ~OwnerStillStored =>
                   \E a \in atCreation' :
                       a.ownerDid = args.owner /\ a.ownerWas = {} ]_vars

\* an agent is stored whose owner was deleted between its owner check and its
\* storeIdentity: the store holds the agent and not the owner
C22_Witness ==
    /\ last.cmd = "create agent"
    /\ last.exit = 0
    /\ \A i \in StoredBefore : i.did # last.args.owner
    /\ \E i \in StoredAt(getStorePath(last.args.store)) :
          /\ i.type = "agent"
          /\ i.ownerDid = Some(last.args.owner)
          /\ i \notin StoredBefore
    /\ \A i \in StoredAt(getStorePath(last.args.store)) : i.did # last.args.owner
    /\ \E a \in atCreation : a.ownerDid = last.args.owner /\ a.ownerWas = {}

-----------------------------------------------------------------------------
(* Claims on SpecCli *)

\* The command tree the documentation gives, as paths below agent-did
DocumentedTree ==
    {<<"agent-did">> \o rest : rest \in
        {<<>>, <<"create">>, <<"create", "owner">>, <<"create", "agent">>,
         <<"list">>, <<"inspect">>, <<"delete">>, <<"vc">>, <<"vc", "issue">>,
         <<"vc", "issue", "ownership">>, <<"vc", "issue", "capability">>,
         <<"vc", "verify">>, <<"vc", "list">>, <<"vc", "inspect">>,
         <<"vc", "delete">>, <<"auth">>, <<"auth", "sign">>, <<"auth", "verify">>}}

\* The commands of the program that the plugin added
PluginCommands ==
    {i \in 1..Len(host.program) : host.program[i][1] = "agent-did"}

\* C23: register calls api.registerCli once and declares the one command
\* agent-did; once the callback has run, the program has one agent-did command
\* and below it exactly create {owner, agent}, list, inspect, delete,
\* vc {issue {ownership, capability}, verify, list, inspect, delete} and
\* auth {sign, verify}, each once.
C23_RegisterBuildsTheDocumentedTree ==
    /\ Len(host.declared) <= 1
    /\ \A i \in 1..Len(host.declared) : host.declared[i] = <<"agent-did">>
    /\ host.ran =>
          /\ {host.program[i] : i \in PluginCommands} = DocumentedTree
          /\ Cardinality(PluginCommands) = Cardinality(DocumentedTree)

-----------------------------------------------------------------------------
(* Claims on SpecFiles: what vc inspect and vc verify take from a file *)

\* The file the last command was given, as the command found it
GivenFile == last.before.files[PathResolve(last.args.file)]

\* C30: on a file that holds a JSON object, vc inspect decodes the token in
\* the credential field, or failing that in the jwt field, and fails when the
\* object has neither, whereas vc verify hands the whole content to
\* verifyCredential, which finds no token in it, whatever the fields hold; on
\* a file that holds a raw token both commands work on that token.
C30_InspectUnwrapsVerifyDoesNot ==
    \A c \in (IF last.cmd \in {"vc inspect", "vc verify"} THEN GivenFile ELSE {}) :
       /\ (last.cmd = "vc inspect" /\ c.kind = "json") =>
             /\ c.credential # NULL =>
                   /\ last.exit = 0
                   /\ last.out.data.payload = Get(c.credential).payload
             /\ (c.credential = NULL /\ c.jwt # NULL) =>
                   /\ last.exit = 0
                   /\ last.out.data.payload = Get(c.jwt).payload
             /\ (c.credential = NULL /\ c.jwt = NULL) =>
                   /\ last.exit = 1
                   /\ last.error # NULL
                   /\ Get(last.error).message = MsgInvalidJwt
       /\ (last.cmd = "vc verify" /\ c.kind = "json") =>
             /\ Called(last.calls, "verifyCredential")
             /\ last.error = NULL
             /\ ~last.out.data.valid
             /\ last.out.data.reason = "MalformedToken"
             /\ last.out.data.payload = NULL
       /\ (last.cmd = "vc inspect" /\ c.kind = "jwt") =>
             /\ last.exit = 0
             /\ last.out.data.payload = c.jwt.payload
       /\ (last.cmd = "vc verify" /\ c.kind = "jwt") =>
             /\ last.error = NULL
             /\ last.out.data.valid \/ last.out.data.reason # "MalformedToken"
             /\ \A p \in last.out.data.payload : p = c.jwt.payload

\* a JSON object whose credential and jwt fields hold different tokens was
\* inspected: the payload printed is that of the credential field
C30_Witness ==
    /\ last.cmd = "vc inspect"
    /\ last.exit = 0
    /\ \E c \in GivenFile :
          /\ c.kind = "json"
          /\ c.credential # NULL
          /\ c.jwt # NULL
          /\ c.jwt # c.credential
          /\ last.out.data.payload = Get(c.credential).payload
          /\ last.out.data.payload # Get(c.jwt).payload

=============================================================================
